---- MODULE Spec2Model ----
(***************************************************************************)
(* Model of performance-data/scripts/load_balance_analyzer.py: the table   *)
(* of load-balancing records, calculate_load_balance_metrics, the fairness *)
(* score of create_fairness_analysis and the per-XPU part of the report of *)
(* generate_analysis_report, in the order main() runs them (Spec); of the  *)
(* main() of the analyzer scripts from log discovery to exit status        *)
(* (RunSpec); of loss_analyzer.py (LossSpec) and its search for a default  *)
(* log file (DefaultLogSpec); of the MAC address tables of                 *)
(* credit_analyzer.py and network_visualizer.py (ImportSpec); of the       *)
(* main() of queue_usage_analyzer.py (QueueSpec); and of the loader of     *)
(* sue_buffer_queue_analyzer.py row by row (BufferSpec).                   *)
(*                                                                         *)
(* Numbers.  The script computes in float64.  A float64 value is modelled  *)
(* by the real number it stands for, kept exactly as (a + b*sqrt(r)) / d   *)
(* with integers a, b, r, d (d = 0 is an infinity of the sign of a), so    *)
(* that np.std, the quotients and the scores are compared without          *)
(* rounding.  Where the rounding of float64 itself decides a property (the *)
(* quotient total_requests / num_sues multiplied back by num_sues), the    *)
(* round-to-nearest-even of the 53-bit significand is computed by          *)
(* Float64RoundTrip, and the float64 averages of the report's assessment  *)
(* by Float64, Float64Plus, Float64Times and Float64Over.                  *)
(***************************************************************************)
EXTENDS Integers, Sequences, FiniteSets, TLC

\* Bounds of the enumerated tables.
MaxRows == 3
MaxXpu == 1
MaxSue == 2

----------------------------------------------------------------------------
(* Exact arithmetic on the values (a + b*sqrt(r)) / d.                     *)

Abs(n) == IF n < 0 THEN -n ELSE n

Sgn(n) == IF n < 0 THEN -1 ELSE IF n > 0 THEN 1 ELSE 0

RECURSIVE GCD(_, _)
GCD(m, n) == IF n = 0 THEN m ELSE GCD(n, m % n)

\* The largest k with k*k dividing r (r > 0).
SquarePart(r) ==
    LET ks == {k \in 1..r : k * k <= r /\ r % (k * k) = 0}
    IN  CHOOSE k \in ks : \A j \in ks : j <= k

\* The value (a + b*sqrt(r)) / d in canonical form: d > 0 (or d = 0 for an
\* infinity), r square-free, r = 1 and b = 0 for a rational, lowest terms.
Real(a, b, r, d) ==
    IF d = 0 THEN [a |-> Sgn(a), b |-> 0, r |-> 1, d |-> 0]
    ELSE
    LET s  == Sgn(d)
        k  == IF b = 0 \/ r = 0 THEN 1 ELSE SquarePart(r)
        r1 == IF b = 0 \/ r = 0 THEN 1 ELSE r \div (k * k)
        b1 == IF b = 0 \/ r = 0 THEN 0 ELSE s * b * k
        a2 == IF r1 = 1 THEN s * a + b1 ELSE s * a
        b2 == IF r1 = 1 THEN 0 ELSE b1
        d2 == s * d
        g  == GCD(GCD(Abs(a2), Abs(b2)), d2)
    IN  [a |-> a2 \div g, b |-> b2 \div g, r |-> r1, d |-> d2 \div g]

FromInt(n) == Real(n, 0, 1, 1)

Ratio(n, m) == Real(n, 0, 1, m)

PosInf == Real(1, 0, 1, 0)

IsInf(x) == x.d = 0

Neg(x) == [x EXCEPT !.a = -x.a, !.b = -x.b]

\* The radicand two values share (a rational takes the other's).
Radicand(x, y) == IF x.b # 0 THEN x.r ELSE y.r

Add(x, y) ==
    IF IsInf(x) THEN x
    ELSE IF IsInf(y) THEN y
    ELSE Real(x.a * y.d + y.a * x.d, x.b * y.d + y.b * x.d, Radicand(x, y),
              x.d * y.d)

Sub(x, y) == Add(x, Neg(y))

Mul(x, y) ==
    Real(x.a * y.a + x.b * y.b * Radicand(x, y), x.a * y.b + x.b * y.a,
         Radicand(x, y), x.d * y.d)

\* x / y for a rational y # 0.
Div(x, y) == Real(x.a * y.d * Sgn(y.a), x.b * y.d * Sgn(y.a), x.r,
                  x.d * Abs(y.a))

\* np.sqrt of a rational x >= 0: sqrt(a/d) = sqrt(a*d)/d.
Sqrt(x) == Real(0, 1, x.a * x.d, x.d)

\* The sign of a + b*sqrt(r), by comparing a*a with b*b*r when the two
\* terms have opposite signs.
Sign(x) ==
    IF x.b = 0 THEN Sgn(x.a)
    ELSE IF x.a = 0 \/ Sgn(x.a) = Sgn(x.b) THEN Sgn(x.b)
    ELSE IF x.a * x.a > x.b * x.b * x.r THEN Sgn(x.a)
    ELSE IF x.a * x.a < x.b * x.b * x.r THEN Sgn(x.b)
    ELSE 0

Less(x, y) == Sign(Sub(x, y)) < 0

LessEq(x, y) == Sign(Sub(x, y)) <= 0

Equal(x, y) == Sign(Sub(x, y)) = 0

\* Python's max(x, y) on two numbers.
Max2(x, y) == IF Less(x, y) THEN y ELSE x

----------------------------------------------------------------------------
(* float64 rounding of x = p/q (p, q > 0) and of the product fl(x) * k,    *)
(* for an integer k > 0 that q divides, so that the real product is the    *)
(* integer T = p*k/q.  fl(x) = M / 2^s with M the 53-bit significand.      *)

SignificandBits == 53

RECURSIVE Pow2(_)
Pow2(e) == IF e = 0 THEN 1 ELSE 2 * Pow2(e - 1)

\* 2^e mod m, without forming 2^e.
RECURSIVE Pow2Mod(_, _)
Pow2Mod(e, m) == IF e = 0 THEN 1 % m ELSE (2 * Pow2Mod(e - 1, m)) % m

\* The binary exponent of p/q >= 1: the largest e >= 0 with 2^e * q <= p.
RECURSIVE Exponent(_, _)
Exponent(p, q) == IF 2 * q <= p THEN 1 + Exponent(p, 2 * q) ELSE 0

\* r = p * 2^s - M * q for M = p * 2^s / q rounded to nearest, ties to
\* even: the error of the significand of fl(p/q), scaled by q.
DivisionRemainder(p, q) ==
    LET s    == (SignificandBits - 1) - Exponent(p, q)
        rem  == ((p % q) * Pow2Mod(s, q)) % q
        odd  == ((p % (2 * q)) * Pow2Mod(s, 2 * q)) % (2 * q) >= q
    IN  IF 2 * rem < q THEN rem
        ELSE IF 2 * rem > q THEN rem - q
        ELSE IF odd THEN rem - q ELSE rem

\* fl(fl(x) * k) for the rational x = p/q >= 1 and the integer k, q | k:
\* the integer T the real product equals, and the distance of the float64
\* product from T in half units in the last place of T.  The exact product
\* of the two floats is T - n/d ulp(T); it is rounded to nearest, ties to
\* even (T itself has an even significand), and below a power of two the
\* floats are half an ulp apart.
Float64RoundTrip(x, k) ==
    LET g == k \div x.d
        T == x.a * g
        n == g * DivisionRemainder(x.a, x.d)
        d == Pow2(Exponent(T, 1) - Exponent(x.a, x.d))
        power == T = Pow2(Exponent(T, 1))
        off == IF n = 0 THEN 0
               ELSE IF n < 0 THEN (IF 2 * (-n) <= d THEN 0 ELSE 2)
               ELSE IF ~power THEN (IF 2 * n <= d THEN 0 ELSE -2)
               ELSE IF 4 * n <= d THEN 0
               ELSE IF 4 * n < 3 * d THEN -1
               ELSE -2
    IN  [value |-> T, half_ulps |-> off]

----------------------------------------------------------------------------
(* The table (a pandas DataFrame: a sequence of rows in log order) and the *)
(* pandas / numpy operations the script applies to it.                     *)

\* df[df[col] == v]: the rows whose column col is v, in order.
FilterRows(tbl, col, v) == SelectSeq(tbl, LAMBDA row : row[col] = v)

\* df[col]: one column, in row order.
Column(tbl, col) == [i \in DOMAIN tbl |-> tbl[i][col]]

\* Series.unique(): the set of the values of a column.
Unique(s) == {s[i] : i \in DOMAIN s}

\* sorted(...) of a set of integers: the ascending sequence.
RECURSIVE Sorted(_)
Sorted(S) ==
    IF S = {} THEN <<>>
    ELSE LET m == CHOOSE x \in S : \A y \in S : x <= y
         IN  <<m>> \o Sorted(S \ {m})

\* The distinct values of s in order of first appearance.
FirstSeen(s) ==
    LET first == Sorted({i \in DOMAIN s : \A j \in 1..(i - 1) : s[j] # s[i]})
    IN  [k \in DOMAIN first |-> s[first[k]]]

\* Stable insertion of the entry e into es, kept in descending order of
\* count: e goes after the entries whose count is at least its own.
RECURSIVE InsertByCount(_, _)
InsertByCount(es, e) ==
    IF es = <<>> THEN <<e>>
    ELSE IF es[1].count >= e.count THEN <<es[1]>> \o InsertByCount(Tail(es), e)
    ELSE <<e>> \o es

RECURSIVE SortByCount(_)
SortByCount(es) ==
    IF es = <<>> THEN <<>>
    ELSE InsertByCount(SortByCount(SubSeq(es, 1, Len(es) - 1)), es[Len(es)])

\* Series.value_counts(): one entry (index, count) per distinct value that
\* occurs, most frequent first, equal counts in order of first appearance.
value_counts(s) ==
    LET f == FirstSeen(s)
    IN  SortByCount([i \in DOMAIN f |->
            [index |-> f[i],
             count |-> Cardinality({j \in DOMAIN s : s[j] = f[i]})]])

\* Series.sort_index(): the entries in ascending order of their index.
sort_index(es) ==
    LET idx == Sorted({es[i].index : i \in DOMAIN es})
    IN  [i \in DOMAIN idx |-> CHOOSE e \in Unique(es) : e.index = idx[i]]

\* Series.values: the counts, in the order of the entries.
Values(es) == [i \in DOMAIN es |-> es[i].count]

RECURSIVE SumReal(_)
SumReal(xs) ==
    IF xs = <<>> THEN FromInt(0) ELSE Add(xs[1], SumReal(Tail(xs)))

\* np.mean of a sequence of integers.
np_mean(xs) == Div(SumReal([i \in DOMAIN xs |-> FromInt(xs[i])]),
                   FromInt(Len(xs)))

\* np.std (ddof = 0): sqrt(mean(|x - mean(x)|^2)).
np_std(xs) ==
    LET m  == np_mean(xs)
        sq == [i \in DOMAIN xs |->
                  Mul(Sub(FromInt(xs[i]), m), Sub(FromInt(xs[i]), m))]
    IN  Sqrt(Div(SumReal(sq), FromInt(Len(xs))))

np_max(xs) == CHOOSE x \in Unique(xs) : \A y \in Unique(xs) : y <= x

np_min(xs) == CHOOSE x \in Unique(xs) : \A y \in Unique(xs) : x <= y

----------------------------------------------------------------------------
(* calculate_load_balance_metrics.                                         *)

\* Variant: the largest id is left out of the keys.
local_xpus_drop_last(tbl) ==
    LET ids == Unique(Column(tbl, "LocalXpuId"))
    IN  {x \in ids : \E y \in ids : y > x}

\* df['LocalXpuId'].unique(): the keys of the result.
local_xpus(tbl) == Unique(Column(tbl, "LocalXpuId"))

xpu_data(tbl, local_xpu) == FilterRows(tbl, "LocalXpuId", local_xpu)

\* Variant: one entry for every SueId of the whole table, zero-filled.
sue_counts_zero_filled(tbl, local_xpu) ==
    LET own == Column(xpu_data(tbl, local_xpu), "SueId")
        all == Sorted(Unique(Column(tbl, "SueId")))
    IN  [i \in DOMAIN all |->
            [index |-> all[i],
             count |-> Cardinality({j \in DOMAIN own : own[j] = all[i]})]]

\* Variant: value_counts() without sort_index().
sue_counts_unsorted(tbl, local_xpu) ==
    value_counts(Column(xpu_data(tbl, local_xpu), "SueId"))

sue_counts(tbl, local_xpu) ==
    sort_index(value_counts(Column(xpu_data(tbl, local_xpu), "SueId")))

\* Variant: len(df) in place of len(xpu_data).
total_requests_of_table(tbl, local_xpu) == Len(tbl)

total_requests(tbl, local_xpu) == Len(xpu_data(tbl, local_xpu))

\* Variant: floor division, total // num_sues.
ideal_per_sue_floor(total, num_sues) ==
    IF num_sues > 0 THEN FromInt(total \div num_sues) ELSE FromInt(0)

ideal_per_sue(total, num_sues) ==
    IF num_sues > 0 THEN Ratio(total, num_sues) ELSE FromInt(0)

cv(actual_counts) ==
    IF Sign(np_mean(actual_counts)) > 0
    THEN Div(np_std(actual_counts), np_mean(actual_counts))
    ELSE FromInt(0)

\* Variant: the deviation relative to the largest count.
rsd_of_maximum(actual_counts, ideal) ==
    IF Sign(ideal) > 0
    THEN Mul(Div(np_std(actual_counts), FromInt(np_max(actual_counts))),
             FromInt(100))
    ELSE FromInt(0)

\* Variant: the quotient is taken the other way round, min / max.
min_max_ratio(actual_counts) ==
    IF np_min(actual_counts) > 0
    THEN Ratio(np_min(actual_counts), np_max(actual_counts))
    ELSE PosInf

max_min_ratio(actual_counts) ==
    IF np_min(actual_counts) > 0
    THEN Ratio(np_max(actual_counts), np_min(actual_counts))
    ELSE PosInf

rsd(actual_counts, ideal) ==
    IF Sign(ideal) > 0
    THEN Mul(Div(np_std(actual_counts), ideal), FromInt(100))
    ELSE FromInt(0)

\* The record metrics[local_xpu].
xpu_metrics(tbl, local_xpu) ==
    LET counts == sue_counts(tbl, local_xpu)
        total  == total_requests(tbl, local_xpu)
        ideal  == ideal_per_sue(total, Len(counts))
    IN  [total_requests |-> total,
         num_sues       |-> Len(counts),
         ideal_per_sue  |-> ideal,
         cv             |-> cv(Values(counts)),
         max_min_ratio  |-> max_min_ratio(Values(counts)),
         rsd            |-> rsd(Values(counts), ideal),
         sue_counts     |-> counts]

calculate_load_balance_metrics(tbl) ==
    [local_xpu \in local_xpus(tbl) |-> xpu_metrics(tbl, local_xpu)]

----------------------------------------------------------------------------
(* create_fairness_analysis: the scores of one local XPU.                  *)

\* Variant: the score is not clamped at 0.
cv_score_unclamped(m) == Sub(FromInt(100), Mul(m.cv, FromInt(500)))

cv_score(m) ==
    Max2(FromInt(0), Sub(FromInt(100), Mul(m.cv, FromInt(500))))

rsd_score(m) ==
    Max2(FromInt(0), Sub(FromInt(100), Mul(m.rsd, Ratio(5, 2))))

\* Variant: the ratio is not taken relative to 1.
ratio_score_from_zero(m) ==
    Max2(FromInt(0),
         Sub(FromInt(100), Mul(m.max_min_ratio, FromInt(50))))

\* Variant: a weight of 5 in place of 50.
ratio_score_weight_5(m) ==
    Max2(FromInt(0),
         Sub(FromInt(100),
             Mul(Sub(m.max_min_ratio, FromInt(1)), FromInt(5))))

ratio_score(m) ==
    Max2(FromInt(0),
         Sub(FromInt(100),
             Mul(Sub(m.max_min_ratio, FromInt(1)), FromInt(50))))

overall_score(m) ==
    Div(Add(Add(cv_score(m), rsd_score(m)), ratio_score(m)), FromInt(3))

xpu_scores(m) ==
    [cv_score      |-> cv_score(m),
     rsd_score     |-> rsd_score(m),
     ratio_score   |-> ratio_score(m),
     overall_score |-> overall_score(m)]

----------------------------------------------------------------------------
(* generate_analysis_report: the integers of the report, as the decimal    *)
(* text an f-string writes.  The lines that format a float (Ideal per SUE, *)
(* CV, RSD, Max/Min Ratio, the percentages) carry no count and are not     *)
(* kept.                                                                   *)

Digit(n) == CASE n = 0 -> "0" [] n = 1 -> "1" [] n = 2 -> "2" [] n = 3 -> "3"
              [] n = 4 -> "4" [] n = 5 -> "5" [] n = 6 -> "6" [] n = 7 -> "7"
              [] n = 8 -> "8" [] n = 9 -> "9"

\* f"{n}" for an integer n >= 0: its decimal digits, most significant first.
RECURSIVE FormatInt(_)
FormatInt(n) ==
    IF n < 10 THEN <<Digit(n)>> ELSE Append(FormatInt(n \div 10), Digit(n % 10))

\* int(text) for a string of decimal digits.
RECURSIVE ParseInt(_)
ParseInt(text) ==
    IF text = <<>> THEN 0
    ELSE 10 * ParseInt(SubSeq(text, 1, Len(text) - 1))
         + (CHOOSE n \in 0..9 : Digit(n) = text[Len(text)])

\* Variant: the "Total Requests" line written from num_sues.
report_section_total_from_num_sues(local_xpu, m) ==
    [local_xpu      |-> FormatInt(local_xpu),
     total_requests |-> FormatInt(m.num_sues),
     num_sues       |-> FormatInt(m.num_sues),
     distribution   |-> [i \in DOMAIN m.sue_counts |->
                            [sue      |-> FormatInt(m.sue_counts[i].index),
                             requests |-> FormatInt(m.sue_counts[i].count)]]]

\* The lines of one "Local XPU" block.
report_section(local_xpu, m) ==
    [local_xpu      |-> FormatInt(local_xpu),
     total_requests |-> FormatInt(m.total_requests),
     num_sues       |-> FormatInt(m.num_sues),
     distribution   |-> [i \in DOMAIN m.sue_counts |->
                            [sue      |-> FormatInt(m.sue_counts[i].index),
                             requests |-> FormatInt(m.sue_counts[i].count)]]]

report_text(tbl, ms) ==
    [total_records |-> FormatInt(Len(tbl)),
     sections      |-> LET keys == Sorted(DOMAIN ms)
                       IN  [i \in DOMAIN keys |->
                               report_section(keys[i], ms[keys[i]])]]

----------------------------------------------------------------------------
(* The input tables.                                                       *)

Rows == [LocalXpuId : 0..MaxXpu, DestXpuId : {0}, VcId : {0},
         SueId : 0..MaxSue]

\* Every table of at most MaxRows rows.
Tables == UNION {[1..n -> Rows] : n \in 0..MaxRows}

\* n consecutive log rows of local_xpu sent to sue.
Repeat(local_xpu, sue, n) ==
    [i \in 1..n |-> [LocalXpuId |-> local_xpu, DestXpuId |-> 0, VcId |-> 0,
                     SueId |-> sue]]

\* One row of local_xpu for each of the SUEs lo..hi.
RECURSIVE OneEach(_, _, _)
OneEach(local_xpu, lo, hi) ==
    IF lo > hi THEN <<>>
    ELSE Repeat(local_xpu, lo, 1) \o OneEach(local_xpu, lo + 1, hi)

\* Larger logs: three SUEs with 10 requests each; 100 requests against 1;
\* a single SUE with 5 requests; 15 requests over 11 SUEs; three SUEs with
\* 10, 11 and 12 requests.
FairTable == Repeat(1, 0, 10) \o Repeat(1, 1, 10) \o Repeat(1, 2, 10)

SkewedTable == Repeat(2, 0, 100) \o Repeat(2, 1, 1)

SingleTable == Repeat(3, 0, 5)

ElevenSueTable == Repeat(0, 0, 5) \o OneEach(0, 1, 10)

NearFairTable == Repeat(1, 0, 10) \o Repeat(1, 1, 11) \o Repeat(1, 2, 12)

\* Three local XPUs: two with a single request, one with 1 and 4 requests.
ThreeXpuTable ==
    Repeat(0, 0, 1) \o Repeat(1, 0, 1) \o Repeat(2, 0, 1) \o Repeat(2, 1, 4)

LargeTables ==
    {FairTable, SkewedTable, SingleTable, ElevenSueTable, NearFairTable,
     ThreeXpuTable}

----------------------------------------------------------------------------
(* main(): the table is loaded, then the metrics, the charts and the       *)
(* report are produced in this order.                                      *)

VARIABLES df, pc, metrics, boxplot_stats, fairness_scores, report

\* One run of a script's main(): the script, its command line, the two log
\* directories it searches, and what the run left behind.
VARIABLES script, argv, listing, second_listing, data_file, read_csv, table,
          raised, stdout, artifacts, exit_status

\* One run of loss_analyzer.py on a log: the lines of the log, the value of
\* calculate_packet_loss and the files save_loss_analysis wrote.
VARIABLES log, results, written

\* The import of a script that builds the MAC address tables: the script,
\* the arguments of generate_mac_device_mapping and the two module-level
\* dictionaries.
VARIABLES module, mapping_args, MAC_TO_DEVICE_MAP, DEVICE_TO_MAC_MAP
VARIABLES command_line, queue_args, dest_data, device_data, processing_data,
          generated_files, saved_charts, queue_exit
VARIABLES buffer_csv, buffer_df, buffer_outputs, buffer_exit
VARIABLES log_dir, default_log_file

analyzer_vars == <<df, pc, metrics, boxplot_stats, fairness_scores, report>>

run_vars == <<script, argv, listing, second_listing, data_file, read_csv,
              table, raised, stdout, artifacts, exit_status>>

loss_vars == <<log, results, written>>

import_vars == <<module, mapping_args, MAC_TO_DEVICE_MAP, DEVICE_TO_MAC_MAP>>

queue_vars == <<command_line, queue_args, dest_data, device_data,
               processing_data, generated_files, saved_charts, queue_exit>>
buffer_vars == <<buffer_csv, buffer_df, buffer_outputs, buffer_exit>>
default_log_vars == <<log_dir, default_log_file>>
\* The variables of the other scripts' specifications.
other_vars == <<import_vars, queue_vars, buffer_vars, default_log_vars>>

vars == <<analyzer_vars, run_vars, loss_vars, other_vars>>

\* A path is a log directory and the position of the file in the glob of
\* that directory; None stands for Python's None.
Path(dir, index) == [dir |-> dir, index |-> index]

None == Path("None", 0)

\* The value of a table variable before any file is read.
NoTable == [columns |-> FALSE, rows |-> -1]

\* A log directory: whether it exists, and the (mtime, ctime) of the files
\* in it that match the script's glob pattern, in the order glob yields them.
NoDirectory == [exists |-> FALSE, files |-> <<>>]

\* The command line without file arguments.
NoArgs == [credit_file |-> None, performance_file |-> None]

\* The value of results before calculate_packet_loss is called.
NoResults ==
    [error |-> "", total_sent |-> 0, total_received |-> 0,
     total_dropped |-> 0, network_loss_rate |-> FromInt(0),
     receiver_loss_rate |-> FromInt(0), total_loss_rate |-> FromInt(0)]

\* No script is run.
NoRun ==
    /\ script = "" /\ argv = NoArgs
    /\ listing = NoDirectory /\ second_listing = NoDirectory
    /\ data_file = None /\ read_csv = NoTable /\ table = NoTable
    /\ raised = {}
    /\ stdout = {} /\ artifacts = {} /\ exit_status = ""

\* No log is analysed.
NoLog == log = <<>> /\ results = NoResults /\ written = <<>>

\* The arguments before any call of generate_mac_device_mapping.
NoMappingArgs ==
    [xpu_count |-> 0, devices_per_xpu |-> 0, devices_per_switch |-> 0]

\* No script with MAC address tables is imported.
NoImport ==
    /\ module = "" /\ mapping_args = NoMappingArgs
    /\ MAC_TO_DEVICE_MAP = <<>> /\ DEVICE_TO_MAC_MAP = <<>>

\* None of the other scripts is run.
NoQueueArgs ==
    [xpu_id |-> 0, device_id |-> 0, switch_id |-> 0,
     include_processing |-> FALSE, auto_detect |-> FALSE]

\* None, as load_latest_data returns it in place of a table.
NoQueueData == [loaded |-> FALSE, VcId |-> FALSE, rows |-> {}]

NoQueue ==
    /\ command_line = NoQueueArgs
    /\ queue_args = NoQueueArgs
    /\ dest_data = NoQueueData
    /\ device_data = NoQueueData
    /\ processing_data = NoQueueData
    /\ generated_files = <<>>
    /\ saved_charts = {}
    /\ queue_exit = ""

\* None, as load_and_preprocess_data returns it in place of a table.
NoBufferData == [loaded |-> FALSE, rows |-> <<>>]

NoBuffer ==
    /\ buffer_csv = [columns |-> {}, rows |-> <<>>]
    /\ buffer_df = NoBufferData
    /\ buffer_outputs = {}
    /\ buffer_exit = ""

NoDefaultLog ==
    /\ log_dir = [exists |-> FALSE, files |-> <<>>]
    /\ default_log_file = ""

NoOther == NoImport /\ NoQueue /\ NoBuffer /\ NoDefaultLog

\* No table of load-balancing records is analysed.
NoAnalysis ==
    /\ df = <<>> /\ pc = "" /\ metrics = <<>> /\ boxplot_stats = <<>>
    /\ fairness_scores = <<>> /\ report = <<>>

\* At most this many local XPUs get a box plot.
MaxBoxPlots == 4

Init ==
    /\ df \in Tables \cup LargeTables
    /\ pc = "loaded"
    /\ metrics = <<>>
    /\ boxplot_stats = <<>>
    /\ fairness_scores = <<>>
    /\ report = <<>>
    /\ NoRun
    /\ NoLog
    /\ NoOther

\* A calculate_load_balance_metrics that drops the first row of its argument
\* in place.
CalculateMetrics_dropping_first_row ==
    /\ pc = "loaded"
    /\ metrics' = calculate_load_balance_metrics(df)
    /\ df' = SubSeq(df, 2, Len(df))
    /\ pc' = "calculated"
    /\ UNCHANGED <<boxplot_stats, fairness_scores, report>>
    /\ UNCHANGED <<run_vars, loss_vars, other_vars>>

\* metrics = calculate_load_balance_metrics(df)
CalculateMetrics ==
    /\ pc = "loaded"
    /\ metrics' = calculate_load_balance_metrics(df)
    /\ pc' = "calculated"
    /\ UNCHANGED <<df, boxplot_stats, fairness_scores, report>>
    /\ UNCHANGED <<run_vars, loss_vars, other_vars>>

\* create_box_plot(df, output_dir): the statistics box of each of the first
\* MaxBoxPlots local XPUs, read from a fresh calculate_load_balance_metrics(df).
CreateBoxPlot ==
    /\ pc = "calculated"
    /\ boxplot_stats' =
          LET xpus  == Sorted(local_xpus(df))
              shown == SubSeq(xpus, 1, IF Len(xpus) < MaxBoxPlots
                                       THEN Len(xpus) ELSE MaxBoxPlots)
          IN  [i \in DOMAIN shown |->
                  LET m == calculate_load_balance_metrics(df)[shown[i]]
                  IN  [local_xpu |-> shown[i], cv |-> m.cv, rsd |-> m.rsd,
                       max_min_ratio |-> m.max_min_ratio]]
    /\ pc' = "boxplot"
    /\ UNCHANGED <<df, metrics, fairness_scores, report>>
    /\ UNCHANGED <<run_vars, loss_vars, other_vars>>

\* create_fairness_analysis(metrics, output_dir)
CreateFairnessAnalysis ==
    /\ pc = "boxplot"
    /\ fairness_scores' = [xpu \in DOMAIN metrics |-> xpu_scores(metrics[xpu])]
    /\ pc' = "fairness"
    /\ UNCHANGED <<df, metrics, boxplot_stats, report>>
    /\ UNCHANGED <<run_vars, loss_vars, other_vars>>

\* generate_analysis_report(df, metrics, output_dir)
GenerateAnalysisReport ==
    /\ pc = "fairness"
    /\ report' = report_text(df, metrics)
    /\ pc' = "reported"
    /\ UNCHANGED <<df, metrics, boxplot_stats, fairness_scores>>
    /\ UNCHANGED <<run_vars, loss_vars, other_vars>>

Next ==
    \/ CalculateMetrics
    \/ CreateBoxPlot
    \/ CreateFairnessAnalysis
    \/ GenerateAnalysisReport

Spec == Init /\ [][Next]_vars

----------------------------------------------------------------------------
(* Properties.                                                             *)

RECURSIVE SumInt(_)
SumInt(xs) == IF xs = <<>> THEN 0 ELSE xs[1] + SumInt(Tail(xs))

Calculated == pc # "loaded"

Scored == pc \in {"fairness", "reported"}

\* The rows of the table that carry the local id x.
RowsOf(x) == {i \in DOMAIN df : df[i].LocalXpuId = x}

\* The SUE ids that occur in the rows of local id x.
SuesOf(x) == {df[i].SueId : i \in RowsOf(x)}

\* C1: for every LocalXpuId of the table, the values of sue_counts sum to
\* total_requests, and total_requests is the number of rows of the table
\* that carry that LocalXpuId.
C1_Conservation ==
    Calculated =>
        \A i \in DOMAIN df :
            /\ df[i].LocalXpuId \in DOMAIN metrics
            /\ LET m == metrics[df[i].LocalXpuId]
               IN  /\ SumInt(Values(m.sue_counts)) = m.total_requests
                   /\ m.total_requests = Cardinality(RowsOf(df[i].LocalXpuId))

\* Two local ids have records, one of them with several SUEs.
C1_Witness ==
    /\ pc = "calculated"
    /\ Cardinality(DOMAIN metrics) >= 2
    /\ \E x \in DOMAIN metrics : metrics[x].num_sues >= 2

\* C2: the metrics hold one record for each LocalXpuId that occurs in the
\* table and none for any other id, and no record has total_requests = 0.
C2_OneRecordPerLocalXpu ==
    Calculated =>
        /\ DOMAIN metrics = {df[i].LocalXpuId : i \in DOMAIN df}
        /\ \A x \in DOMAIN metrics : metrics[x].total_requests > 0

\* A non-empty table in which one of the local ids has no row.
C2_Witness ==
    /\ pc = "calculated"
    /\ df # <<>>
    /\ \E x \in 0..MaxXpu : RowsOf(x) = {} /\ x \notin DOMAIN metrics
    /\ \E x \in 0..MaxXpu : RowsOf(x) # {} /\ x \in DOMAIN metrics

InScoreRange(x) == LessEq(FromInt(0), x) /\ LessEq(x, FromInt(100))

\* C3: for every local XPU the overall fairness score and each of the three
\* sub-scores lie in [0, 100].
C3_ScoresInRange ==
    Scored =>
        \A x \in DOMAIN fairness_scores :
            /\ InScoreRange(fairness_scores[x].cv_score)
            /\ InScoreRange(fairness_scores[x].rsd_score)
            /\ InScoreRange(fairness_scores[x].ratio_score)
            /\ InScoreRange(fairness_scores[x].overall_score)

\* An unfair local XPU: cv exceeds 0.2, so 100 - cv * 500 is negative, and
\* the score is 0.
C3_Witness ==
    /\ pc = "fairness"
    /\ \E x \in DOMAIN fairness_scores :
          /\ Less(Ratio(1, 5), metrics[x].cv)
          /\ Equal(fairness_scores[x].cv_score, FromInt(0))

\* All the observed SUEs of the record m have the same request count.
AllCountsEqual(m) ==
    \A i, j \in DOMAIN m.sue_counts :
        m.sue_counts[i].count = m.sue_counts[j].count

\* C4: when all observed SUEs of a local id have the same request count
\* (a single SUE included), cv = 0, rsd = 0, max_min_ratio = 1 and the
\* overall fairness score is 100.
C4_EqualCountsArePerfectlyFair ==
    Scored =>
        \A x \in DOMAIN metrics :
            AllCountsEqual(metrics[x]) =>
                /\ Equal(metrics[x].cv, FromInt(0))
                /\ Equal(metrics[x].rsd, FromInt(0))
                /\ Equal(metrics[x].max_min_ratio, FromInt(1))
                /\ Equal(fairness_scores[x].overall_score, FromInt(100))

\* Three SUEs with 10 requests each have been scored.
C4_Witness ==
    /\ pc = "fairness"
    /\ \E x \in DOMAIN metrics :
          /\ metrics[x].num_sues = 3
          /\ \A i \in DOMAIN metrics[x].sue_counts :
                metrics[x].sue_counts[i].count = 10

\* The counts of the record m are 100 and 1.
HundredToOne(m) ==
    /\ m.num_sues = 2
    /\ Unique(Values(m.sue_counts)) = {100, 1}

\* C5: with the counts {100, 1} max_min_ratio is 100, the ratio sub-score
\* is 0 and the overall score is below 100; and the ratio sub-score is 0
\* whenever max(counts) >= 3 * min(counts).
C5_SkewedRatioScoreIsZero ==
    Scored =>
        \A x \in DOMAIN metrics :
            /\ HundredToOne(metrics[x]) =>
                  /\ Equal(metrics[x].max_min_ratio, FromInt(100))
                  /\ Equal(fairness_scores[x].ratio_score, FromInt(0))
                  /\ Less(fairness_scores[x].overall_score, FromInt(100))
            /\ np_max(Values(metrics[x].sue_counts))
                  >= 3 * np_min(Values(metrics[x].sue_counts))
               => Equal(fairness_scores[x].ratio_score, FromInt(0))

\* The counts {100, 1} have been scored.
C5_Witness ==
    /\ pc = "fairness"
    /\ \E x \in DOMAIN metrics : HundredToOne(metrics[x])

\* C6: max_min_ratio >= 1 for every record whose minimum count is
\* greater than 0.
C6_MaxMinRatioAtLeastOne ==
    Calculated =>
        \A x \in DOMAIN metrics :
            np_min(Values(metrics[x].sue_counts)) > 0
            => LessEq(FromInt(1), metrics[x].max_min_ratio)

\* A record with unequal counts: its ratio is finite and above 1.
C6_Witness ==
    /\ pc = "calculated"
    /\ \E x \in DOMAIN metrics :
          /\ np_min(Values(metrics[x].sue_counts)) > 0
          /\ ~IsInf(metrics[x].max_min_ratio)
          /\ Less(FromInt(1), metrics[x].max_min_ratio)

\* The float64 product ideal_per_sue * num_sues of the record m.
IdealTimesSues(m) == Float64RoundTrip(m.ideal_per_sue, m.num_sues)

\* C7 as stated: ideal_per_sue multiplied by num_sues equals total_requests
\* exactly, for every record.
C7_ProductIsExact ==
    Calculated =>
        \A x \in DOMAIN metrics :
            IdealTimesSues(metrics[x]) =
                [value |-> metrics[x].total_requests, half_ulps |-> 0]

\* C7, amended: ideal_per_sue multiplied by num_sues equals total_requests
\* within floating-point tolerance: the float64 product is at most one unit
\* in the last place (two half units) away from total_requests.
C7_ProductWithinOneUlp ==
    Calculated =>
        \A x \in DOMAIN metrics :
            /\ IdealTimesSues(metrics[x]).value = metrics[x].total_requests
            /\ IdealTimesSues(metrics[x]).half_ulps \in -2..2

\* A record whose float64 product is not total_requests (15 requests over
\* 11 SUEs: 15 / 11 * 11 is 14.999999999999998).
C7_Witness ==
    /\ pc = "calculated"
    /\ \E x \in DOMAIN metrics :
          /\ IdealTimesSues(metrics[x]).value = metrics[x].total_requests
          /\ IdealTimesSues(metrics[x]).half_ulps # 0

\* The table without the rows of the local ids other than x.
OwnRows(x) == SelectSeq(df, LAMBDA row : row.LocalXpuId = x)

\* C8: num_sues of a local id is the number of distinct SueId values in its
\* own rows; every entry of sue_counts is a SueId of its own rows with a
\* count of at least 1 (no zero-filling); and the record returned is the one
\* computed from its own rows alone, so a SueId that occurs only under other
\* local ids changes neither cv, rsd nor max_min_ratio.
C8_OnlyObservedTargetsCounted ==
    Calculated =>
        \A x \in DOMAIN metrics :
            /\ metrics[x].num_sues = Cardinality(SuesOf(x))
            /\ \A i \in DOMAIN metrics[x].sue_counts :
                  /\ metrics[x].sue_counts[i].index \in SuesOf(x)
                  /\ metrics[x].sue_counts[i].count >= 1
            /\ pc = "calculated" =>
                  metrics[x] = calculate_load_balance_metrics(OwnRows(x))[x]

\* A SueId occurs in the table, but only under local ids other than x.
C8_Witness ==
    /\ pc = "calculated"
    /\ \E x \in DOMAIN metrics :
          \E i \in DOMAIN df :
              /\ df[i].LocalXpuId # x
              /\ df[i].SueId \notin SuesOf(x)

\* The table tbl with its rows in the order p, a permutation of its row
\* numbers.
Reordered(tbl, p) == [i \in DOMAIN tbl |-> tbl[p[i]]]

\* The exchange of the rows i and j.
Exchange(i, j) ==
    [k \in DOMAIN df |-> IF k = i THEN j ELSE IF k = j THEN i ELSE k]

\* Other row orders of the table.  Of an enumerated table: every exchange
\* of two rows (the enumerated tables are closed under exchanges, which
\* generate every permutation).  Of a larger one: the exchanges of two
\* neighbouring rows and the reversal.
RowOrders ==
    IF Len(df) <= MaxRows
    THEN {Exchange(i, j) : i, j \in DOMAIN df}
    ELSE {Exchange(i, i + 1) : i \in 1..(Len(df) - 1)}
         \cup {[i \in DOMAIN df |-> Len(df) + 1 - i]}

\* C9: the metrics returned for the table are the metrics of the table with
\* its rows in any other order, and the second call on the same table (the
\* one of create_box_plot) returns the values of the first.
C9_RowOrderIndependent ==
    /\ pc = "calculated" =>
          \A p \in RowOrders :
              calculate_load_balance_metrics(Reordered(df, p)) = metrics
    /\ pc \in {"boxplot", "fairness", "reported"} =>
          \A i \in DOMAIN boxplot_stats :
              LET m == metrics[boxplot_stats[i].local_xpu]
              IN  boxplot_stats[i] =
                      [local_xpu |-> boxplot_stats[i].local_xpu, cv |-> m.cv,
                       rsd |-> m.rsd, max_min_ratio |-> m.max_min_ratio]

\* Some other row order puts the rows of one local id in a different order
\* of SueId, and the box plot has made its second call.
C9_Witness ==
    /\ pc = "boxplot"
    /\ boxplot_stats # <<>>
    /\ \E p \in RowOrders : \E x \in DOMAIN metrics :
          Column(xpu_data(Reordered(df, p), x), "SueId")
              # Column(xpu_data(df, x), "SueId")

\* The request counts read back from the "SUE Distribution" lines of a
\* report section.
ParsedCounts(section) ==
    [i \in DOMAIN section.distribution |->
        ParseInt(section.distribution[i].requests)]

\* C10: in the report, the per-SUE request counts of each local XPU sum to
\* the "Total Requests" value written for it, which is the total_requests
\* of its record: reading the counts back reproduces total_requests.
C10_ReportCountsSumToTotal ==
    pc = "reported" =>
        /\ Len(report.sections) = Cardinality(DOMAIN metrics)
        /\ \A k \in DOMAIN report.sections :
              LET section == report.sections[k]
                  x       == ParseInt(section.local_xpu)
              IN  /\ x \in DOMAIN metrics
                  /\ SumInt(ParsedCounts(section))
                        = ParseInt(section.total_requests)
                  /\ ParseInt(section.total_requests)
                        = metrics[x].total_requests

\* A report with a section of several SUE lines, one of them with a count
\* of more than one digit.
C10_Witness ==
    /\ pc = "reported"
    /\ \E k \in DOMAIN report.sections :
          /\ Len(report.sections[k].distribution) >= 2
          /\ \E i \in DOMAIN report.sections[k].distribution :
                Len(report.sections[k].distribution[i].requests) >= 2

----------------------------------------------------------------------------
(* The scripts' main(): log discovery, the CSV loaders, the charts and the  *)
(* exit status.  A run is modelled by what it leaves behind: the messages  *)
(* printed, the files written to the output directory and the status of    *)
(* the process.                                                            *)

\* At most this many files match the glob pattern in a log directory; the
\* time stamps of a file are drawn from 1..MaxFiles.
MaxFiles == 2

Times == 1..MaxFiles

Files == [mtime : Times, ctime : Times]

\* The directories a glob is run in.
Directories ==
    {NoDirectory} \cup
    {[exists |-> TRUE, files |-> fs] :
        fs \in UNION {[1..n -> Files] : n \in 0..MaxFiles}}

\* The second directory of a script that reads two kinds of logs holds at
\* most one file.
SecondDirectories ==
    {NoDirectory, [exists |-> TRUE, files |-> <<>>],
     [exists |-> TRUE, files |-> <<[mtime |-> 1, ctime |-> 1]>>]}

\* What read_csv finds in a file: whether its header has the columns the
\* loader expects, and whether it has data rows.
CsvFiles == [columns : BOOLEAN, rows : {0, 1}]

\* Python's max(files, key): the first of the files with the greatest key.
FirstMax(keys) ==
    CHOOSE i \in DOMAIN keys :
        /\ \A j \in DOMAIN keys : keys[j] <= keys[i]
        /\ \A j \in 1..(i - 1) : keys[j] < keys[i]

\* max(files, key=lambda f: f.stat().st_mtime), max(files, key=os.path.getmtime)
LatestByMtime(dir, name) ==
    Path(name, FirstMax([i \in DOMAIN dir.files |-> dir.files[i].mtime]))

\* max(files, key=os.path.getctime)
LatestByCtime(dir, name) ==
    Path(name, FirstMax([i \in DOMAIN dir.files |-> dir.files[i].ctime]))

find_load_balance_data(dir) ==
    IF ~dir.exists THEN None
    ELSE IF dir.files = <<>> THEN None
    ELSE LatestByMtime(dir, "load_balance_logs")

find_sue_buffer_queue_data(dir) ==
    IF ~dir.exists THEN None
    ELSE IF dir.files = <<>> THEN None
    ELSE LatestByMtime(dir, "sue_buffer_queue_logs")

find_latest_credit_csv_file(dir) ==
    IF ~dir.exists THEN None
    ELSE IF dir.files = <<>> THEN None
    ELSE LatestByMtime(dir, "link_credit_logs")

find_latest_performance_csv_file(dir) ==
    IF ~dir.exists THEN None
    ELSE IF dir.files = <<>> THEN None
    ELSE LatestByMtime(dir, "performance_logs")

\* find_latest_file of xpu_delay_analyzer.main
xpu_delay_find_latest_file(dir, name) ==
    IF dir.files = <<>> THEN None ELSE LatestByMtime(dir, name)

\* find_latest_file of performance_metrics_analyzer.main
performance_metrics_find_latest_file(dir, name) ==
    IF dir.files = <<>> THEN None ELSE LatestByCtime(dir, name)

\* The value of a loader: the table, and how the call ended ("table": a
\* table of the file's rows; "empty": the empty table the loader builds
\* itself after a warning; "None": None after a message; "ValueError").
Loaded(outcome, tbl) == [outcome |-> outcome, df |-> tbl]

load_and_validate_data(csv) ==
    IF ~csv.columns THEN Loaded("None", NoTable) ELSE Loaded("table", csv)

load_and_preprocess_data(csv) ==
    IF ~csv.columns THEN Loaded("None", NoTable) ELSE Loaded("table", csv)

load_xpu_delay_data(csv) ==
    IF csv.rows = 0 THEN Loaded("empty", [columns |-> TRUE, rows |-> 0])
    ELSE IF ~csv.columns THEN Loaded("ValueError", NoTable)
    ELSE Loaded("table", csv)

load_and_convert_data(csv) ==
    IF csv.rows = 0 THEN Loaded("empty", [columns |-> TRUE, rows |-> 0])
    ELSE IF ~csv.columns THEN Loaded("ValueError", NoTable)
    ELSE Loaded("table", csv)

load_pack_num_data(csv) ==
    IF csv.rows = 0 THEN Loaded("empty", [columns |-> TRUE, rows |-> 0])
    ELSE IF ~csv.columns THEN Loaded("ValueError", NoTable)
    ELSE Loaded("table", csv)

\* df.columns = [seven names] raises ValueError unless the file has seven
\* columns.
load_credit_data(csv) ==
    IF ~csv.columns THEN Loaded("ValueError", NoTable) ELSE Loaded("table", csv)

\* The rows of a performance log are taken to be Tx rows.
load_legacy_credit_data(csv) ==
    IF ~csv.columns THEN Loaded("ValueError", NoTable) ELSE Loaded("table", csv)

\* The charts and reports of each script, in the order main() makes them.
Charts(name) ==
    CASE name = "load_balance_analyzer" ->
            <<"load_balance_boxplot.png", "load_balance_heatmap.png",
              "load_balance_fairness.png">>
      [] name = "xpu_delay_analyzer" ->
            <<"overview_delay_overview.pdf", "xpu_port_delay_heatmap.pdf",
              "tail_tail_latency.pdf">>
      [] name = "credit_analyzer" ->
            <<"credit_value_changes.png", "credit_analysis_report.txt">>
      [] name = "sue_buffer_queue_analyzer" ->
            <<"sue_buffer_queue_timeseries.png",
              "sue_buffer_queue_distribution.png",
              "sue_buffer_queue_heatmap.png",
              "sue_buffer_queue_analysis_report.txt">>
      [] name = "performance_metrics_analyzer" ->
            <<"xpu_delay_distribution.pdf", "xpu_tail_latency.pdf",
              "xpu_pack_distribution.pdf">>

Range(seq) == {seq[i] : i \in DOMAIN seq}

\* The charts written when the calls follow one another with nothing that
\* catches in between: those before the first call that raises.
UntilFirstRaise(charts, raises) ==
    {charts[i] : i \in {k \in DOMAIN charts :
                           \A j \in 1..k : charts[j] \notin raises}}

\* The charts written when each call has a try of its own.
EachInItsOwnTry(charts, raises) == Range(charts) \ raises

\* The end of main(): the file it opened, what read_csv found in it, the
\* table it analysed, the charts whose rendering raises, the messages
\* printed, the files written and the exit status of the process.
Terminate(file, csv, tbl, raises, out, written_files, status) ==
    /\ data_file' = file
    /\ read_csv' = csv
    /\ table' = tbl
    /\ raised' = raises
    /\ stdout' = out
    /\ artifacts' = written_files
    /\ exit_status' = status
    /\ UNCHANGED <<script, argv, listing, second_listing>>
    /\ UNCHANGED <<analyzer_vars, loss_vars, other_vars>>

load_balance_analyzer_main ==
    /\ script = "load_balance_analyzer"
    /\ exit_status = "running"
    /\ \E csv \in CsvFiles, raises \in SUBSET Range(Charts(script)) :
          LET file   == find_load_balance_data(listing)
              loaded == load_and_validate_data(csv)
              charts == UntilFirstRaise(Charts(script), raises)
          IN  IF file = None
              THEN Terminate(None, NoTable, NoTable, {},
                             {"No load balancing data files found"}, {}, "1")
              ELSE IF loaded.outcome = "None"
              THEN Terminate(file, csv, NoTable, {},
                             {"Data file missing required columns"}, {}, "1")
              ELSE Terminate(file, csv, loaded.df, raises,
                             {"Successfully loaded data",
                              "LoadBalancer analysis completed!"} \cup
                             (IF raises = {} THEN {}
                              ELSE {"Error generating charts"}),
                             charts \cup {"load_balance_analysis_report.txt"},
                             "0")

xpu_delay_analyzer_main ==
    /\ script = "xpu_delay_analyzer"
    /\ exit_status = "running"
    /\ \E csv \in CsvFiles, raises \in SUBSET Range(Charts(script)) :
          LET file    == xpu_delay_find_latest_file(listing, "xpu_delay_logs")
              loaded  == load_xpu_delay_data(csv)
              summary == {"analysis_summary.txt"}
          IN  IF file = None
              THEN Terminate(None, NoTable, NoTable, {},
                             {"XPU delay file not found"}, summary, "0")
              ELSE IF loaded.outcome = "ValueError"
              THEN Terminate(file, csv, NoTable, {},
                             {"Error processing XPU delay data"}, summary,
                             "0")
              ELSE IF loaded.outcome = "empty"
              THEN Terminate(file, csv, loaded.df, {},
                             {"Warning: File is empty",
                              "No XPU delay data available"}, summary, "0")
              ELSE Terminate(file, csv, loaded.df, raises,
                             {"XPU delay analysis complete!"} \cup
                             (IF raises = {} THEN {}
                              ELSE {"Error creating plot"}),
                             summary \cup {"overall_delay_stats.csv"} \cup
                             EachInItsOwnTry(Charts(script), raises), "0")

credit_analyzer_main ==
    /\ script = "credit_analyzer"
    /\ exit_status = "running"
    /\ \E csv \in CsvFiles, raises \in SUBSET Range(Charts(script)) :
          LET credit_file ==
                  IF argv.credit_file = None
                  THEN find_latest_credit_csv_file(listing) ELSE None
              performance_file ==
                  IF credit_file = None /\ argv.performance_file = None
                  THEN find_latest_performance_csv_file(second_listing)
                  ELSE None
              file   == IF credit_file # None THEN credit_file
                        ELSE performance_file
              loaded == IF credit_file # None THEN load_credit_data(csv)
                        ELSE load_legacy_credit_data(csv)
              charts == UntilFirstRaise(Charts(script), raises)
          IN  IF file = None
              THEN Terminate(None, NoTable, NoTable, {},
                             {"Unable to find available credit data file"},
                             {}, "1")
              ELSE IF loaded.outcome = "ValueError"
              THEN Terminate(file, csv, NoTable, {}, {"Processing error"}, {},
                             "0")
              ELSE IF loaded.df.rows = 0
              THEN Terminate(file, csv, loaded.df, {},
                             {"Credit data is empty, exiting"}, {}, "1")
              ELSE Terminate(file, csv, loaded.df, raises,
                             IF raises = {}
                             THEN {"Credit analysis completed!"}
                             ELSE {"Processing error"},
                             charts, "0")

sue_buffer_queue_analyzer_main ==
    /\ script = "sue_buffer_queue_analyzer"
    /\ exit_status = "running"
    /\ \E csv \in CsvFiles, raises \in SUBSET Range(Charts(script)) :
          LET file   == find_sue_buffer_queue_data(listing)
              loaded == load_and_preprocess_data(csv)
              charts == UntilFirstRaise(Charts(script), raises)
          IN  IF file = None
              THEN Terminate(None, NoTable, NoTable, {},
                             {"Cannot find data file, program exiting"}, {},
                             "1")
              ELSE IF loaded.outcome = "None"
              THEN Terminate(file, csv, NoTable, {},
                             {"Data file missing required columns",
                              "Cannot load data, program exiting"}, {}, "1")
              ELSE IF raises = {}
              THEN Terminate(file, csv, loaded.df, raises,
                             {"Analysis completed!"}, charts, "0")
              ELSE Terminate(file, csv, loaded.df, raises, {"Traceback"},
                             charts, "1")

performance_metrics_analyzer_main ==
    /\ script = "performance_metrics_analyzer"
    /\ exit_status = "running"
    /\ \E csv \in CsvFiles, pack_csv \in CsvFiles,
          raises \in SUBSET Range(Charts(script)) :
          LET wait_time_file ==
                  performance_metrics_find_latest_file(listing,
                                                       "wait_time_logs")
              pack_num_file ==
                  performance_metrics_find_latest_file(second_listing,
                                                       "pack_num_logs")
              delay_data == load_and_convert_data(csv)
              pack_data  == load_pack_num_data(pack_csv)
              summary    == {"analysis_summary.txt"}
              wait_out ==
                  CASE delay_data.outcome = "ValueError" ->
                          {"Error processing wait time data"}
                    [] delay_data.outcome = "empty" ->
                          {"Warning: File is empty",
                           "No wait time data available"}
                    [] OTHER -> {"Analyzing queueing delay"}
              pack_out ==
                  CASE pack_data.outcome = "ValueError" ->
                          {"Error processing pack number data"}
                    [] pack_data.outcome = "empty" ->
                          {"Warning: File is empty",
                           "No pack number data available"}
                    [] OTHER -> {"Analyzing pack numbers"}
              wait_files ==
                  IF delay_data.outcome # "table" THEN {}
                  ELSE {"wait_time_stats_xpu.csv", "xpu_delay_comparison.pdf"}
                       \cup ({"xpu_delay_distribution.pdf",
                              "xpu_tail_latency.pdf"} \ raises)
              pack_files ==
                  IF pack_data.outcome # "table" THEN {}
                  ELSE {"pack_num_stats_xpu.csv", "xpu_pack_comparison.pdf"}
                       \cup ({"xpu_pack_distribution.pdf"} \ raises)
              plotted ==
                  (IF delay_data.outcome = "table"
                   THEN {"xpu_delay_distribution.pdf", "xpu_tail_latency.pdf"}
                   ELSE {}) \cup
                  (IF pack_data.outcome = "table"
                   THEN {"xpu_pack_distribution.pdf"} ELSE {})
          IN  IF wait_time_file = None \/ pack_num_file = None
              THEN Terminate(None, NoTable, NoTable, {},
                             {"Traceback", "TypeError"}, summary, "1")
              ELSE Terminate(wait_time_file, csv, delay_data.df,
                             raises \cap plotted,
                             wait_out \cup pack_out \cup
                             {"Analysis complete!"} \cup
                             (IF raises \cap plotted = {} THEN {}
                              ELSE {"Error plotting"}),
                             summary \cup wait_files \cup pack_files, "0")

Scripts ==
    {"load_balance_analyzer", "xpu_delay_analyzer", "credit_analyzer",
     "sue_buffer_queue_analyzer", "performance_metrics_analyzer"}

\* The file names --credit_file and --performance_file can carry.
CommandLines ==
    [credit_file : {None, Path("argv", 1)},
     performance_file : {None, Path("argv", 2)}]

\* A script is started in a working directory with some logs in it.
RunInit ==
    /\ NoAnalysis
    /\ NoLog
    /\ NoOther
    /\ script \in Scripts
    /\ argv \in (IF script = "credit_analyzer" THEN CommandLines ELSE {NoArgs})
    /\ listing \in Directories
    /\ second_listing \in
          (IF script \in {"credit_analyzer", "performance_metrics_analyzer"}
           THEN SecondDirectories ELSE {NoDirectory})
    /\ data_file = None
    /\ read_csv = NoTable
    /\ table = NoTable
    /\ raised = {}
    /\ stdout = {}
    /\ artifacts = {}
    /\ exit_status = "running"

RunNext ==
    \/ load_balance_analyzer_main
    \/ xpu_delay_analyzer_main
    \/ credit_analyzer_main
    \/ sue_buffer_queue_analyzer_main
    \/ performance_metrics_analyzer_main

RunSpec == RunInit /\ [][RunNext]_vars

----------------------------------------------------------------------------
(* Properties of the runs.                                                 *)

Exited == exit_status \in {"0", "1"}

\* No file was named on the command line and the glob of some directory the
\* script needs a log from matches nothing (credit_analyzer needs a log from
\* one of its two directories, performance_metrics_analyzer from both).
NothingToDiscover ==
    /\ argv = NoArgs
    /\ CASE script = "credit_analyzer" ->
               listing.files = <<>> /\ second_listing.files = <<>>
         [] script = "performance_metrics_analyzer" ->
               listing.files = <<>> \/ second_listing.files = <<>>
         [] OTHER -> listing.files = <<>>

\* C11: in every script, when no input is given explicitly and the
\* discovery finds no matching log file, the script prints a diagnostic and
\* terminates with a non-zero exit status.
C11_NotFoundExitsNonZero ==
    (Exited /\ NothingToDiscover) => (stdout # {} /\ exit_status = "1")

\* The directory a discovered path was found in.
Searched(path) ==
    IF path.dir \in {"performance_logs", "pack_num_logs"} THEN second_listing
    ELSE listing

\* C12: every script's discovery returns, among the files of the data
\* directory that match its glob pattern, the one with the greatest
\* modification time, and reports not-found when no file matches.
C12_DiscoveryReturnsLatestModified ==
    Exited =>
        /\ data_file # None =>
              \A j \in DOMAIN Searched(data_file).files :
                  Searched(data_file).files[j].mtime <=
                      Searched(data_file).files[data_file.index].mtime
        /\ (listing.files = <<>> /\ second_listing.files = <<>>) =>
              data_file = None

\* The scripts whose loader checks the header against a required column set.
HasRequiredColumns ==
    script \in {"load_balance_analyzer", "sue_buffer_queue_analyzer",
                "xpu_delay_analyzer", "performance_metrics_analyzer"}

\* The messages a run prints when its loader signals a missing column (None
\* after a message, or a ValueError that main reports).
SchemaMismatchMessages ==
    {"Data file missing required columns", "Error processing XPU delay data",
     "Error processing wait time data"}

\* The files that hold statistics computed from the first log.
StatisticsFiles ==
    {"load_balance_analysis_report.txt", "sue_buffer_queue_analysis_report.txt",
     "overall_delay_stats.csv", "wait_time_stats_xpu.csv"}

\* C13: every CSV loader that has a required column set signals a schema
\* mismatch (None with a message, or a ValueError) whenever a required column
\* is absent from the file, also when the file has no data row, and no
\* statistics are then computed from that file.
C13_MissingColumnIsSignalled ==
    (Exited /\ HasRequiredColumns /\ read_csv # NoTable /\ ~read_csv.columns)
        => /\ table = NoTable
           /\ stdout \cap SchemaMismatchMessages # {}
           /\ artifacts \cap StatisticsFiles = {}

\* The charts and reports a script makes from the table of its first log.
ChartsOfTable(name) ==
    IF name = "performance_metrics_analyzer"
    THEN {"xpu_delay_distribution.pdf", "xpu_tail_latency.pdf"}
    ELSE Range(Charts(name))

\* The messages a run prints when it catches the failure of a chart.
ChartErrorMessages ==
    {"Error generating charts", "Error creating plot", "Error plotting",
     "Processing error"}

\* The run loaded a table with data rows and went on to its charts.
Rendering == Exited /\ table # NoTable /\ table.rows > 0

\* C14: when rendering one chart raises, the failure is caught and logged
\* and the remaining charts and reports of the same run are still produced:
\* a failing chart never prevents a later chart of that run.
C14_FailingChartDoesNotStopLaterCharts ==
    (Rendering /\ raised # {}) =>
        /\ stdout \cap ChartErrorMessages # {}
        /\ ChartsOfTable(script) \ raised \subseteq artifacts

\* The messages a run prints about a log without data rows.
EmptyDataMessages ==
    {"Warning: File is empty", "No XPU delay data available",
     "No wait time data available", "Credit data is empty, exiting"}

\* C15: when an input file has the required columns but no data row, the
\* script issues a warning, produces no chart or statistics artifact for
\* that data, and the run does not fail: it neither raises nor exits with an
\* error status.
C15_EmptyDataIsOnlyAWarning ==
    (Exited /\ read_csv # NoTable /\ read_csv.columns /\ read_csv.rows = 0)
        => /\ stdout \cap EmptyDataMessages # {}
           /\ artifacts \cap (ChartsOfTable(script) \cup StatisticsFiles) = {}
           /\ exit_status = "0"
           /\ "Traceback" \notin stdout

\* C20: in credit_analyzer main, when --credit_file names a file the credit
\* data analysed is loaded from that file, and when --performance_file names
\* a file the legacy credit data is loaded from that file; the discovery is
\* used only for an input that was not given explicitly.
C20_ExplicitFilesAreLoaded ==
    (Exited /\ script = "credit_analyzer") =>
        /\ argv.credit_file # None => data_file = argv.credit_file
        /\ (argv.credit_file = None /\ argv.performance_file # None
            /\ listing.files = <<>>) => data_file = argv.performance_file
        /\ data_file.dir = "link_credit_logs" => argv.credit_file = None
        /\ data_file.dir = "performance_logs" => argv.performance_file = None

\* The messages performance_metrics_analyzer prints, and appends to
\* analysis_summary.txt, when a log is not found.
FileNotFoundMessages ==
    {"Wait time file not found", "Pack number file not found"}

\* C21: in performance_metrics_analyzer main, when no wait_time_*.csv file
\* (or no pack_num_*.csv file) is found, main writes the corresponding 'file
\* not found' message to analysis_summary.txt and returns without raising an
\* exception and without computing any statistics.
C21_MissingLogIsReportedInSummary ==
    (/\ Exited
     /\ script = "performance_metrics_analyzer"
     /\ (listing.files = <<>> \/ second_listing.files = <<>>))
        => /\ stdout \cap FileNotFoundMessages # {}
           /\ "Traceback" \notin stdout
           /\ exit_status = "0"
           /\ artifacts = {"analysis_summary.txt"}

----------------------------------------------------------------------------
(* Frame of calculate_load_balance_metrics.                                *)

\* C16: calculate_load_balance_metrics has no side effects: the rows and
\* columns of its input table are the same after the call as before it.
C16_CalculateLeavesTableUnchanged ==
    [][(pc = "loaded" /\ pc' = "calculated") => df' = df]_vars

\* The metrics of a table of several rows have been calculated.
C16_Witness ==
    /\ pc = "calculated"
    /\ Len(df) >= 2
    /\ DOMAIN metrics # {}

----------------------------------------------------------------------------
(* loss_analyzer.py: calculate_packet_loss and save_loss_analysis.          *)
(*                                                                         *)
(* A line of the log is "<prefix> ... <verb> <count> packets": prefix is   *)
(* "Summary:" or "Port" or absent, verb is Sent, Received or Dropped, and  *)
(* count is a string of decimal digits (empty: the line has no number, so  *)
(* the regular expression does not match).                                 *)

\* At most this many lines in a log.
MaxLines == 3

Line(prefix, verb, count) == [prefix |-> prefix, verb |-> verb, count |-> count]

LogLines ==
    {Line("Summary:", "Sent", <<"2">>), Line("Summary:", "Sent", <<"1", "0">>),
     Line("Summary:", "Sent", <<>>),
     Line("Port", "Received", <<"1">>), Line("Port", "Received", <<"3">>),
     Line("", "Received", <<"1">>),
     Line("Port", "Dropped", <<"0">>), Line("Port", "Dropped", <<"1">>)}

Logs == UNION {[1..n -> LogLines] : n \in 0..MaxLines}

\* 'Summary: Sent' in line, and re.search(r'Sent (\d+) packets', line)
SentOf(line) ==
    IF line.prefix = "Summary:" /\ line.verb = "Sent"
    THEN (IF line.count # <<>> THEN ParseInt(line.count) ELSE 0)
    ELSE 0

\* elif 'Received' in line and 'Port' in line, and the search for
\* r'Received (\d+) packets'
ReceivedOf(line) ==
    IF line.prefix = "Summary:" /\ line.verb = "Sent" THEN 0
    ELSE IF line.verb = "Received" /\ line.prefix = "Port"
    THEN (IF line.count # <<>> THEN ParseInt(line.count) ELSE 0)
    ELSE 0

\* elif 'Dropped' in line and 'Port' in line, and the search for
\* r'Dropped (\d+) packets'
DroppedOf(line) ==
    IF line.prefix = "Summary:" /\ line.verb = "Sent" THEN 0
    ELSE IF line.verb = "Received" /\ line.prefix = "Port" THEN 0
    ELSE IF line.verb = "Dropped" /\ line.prefix = "Port"
    THEN (IF line.count # <<>> THEN ParseInt(line.count) ELSE 0)
    ELSE 0

\* The totals after the loop over the lines.
total_sent(lines) == SumInt([i \in DOMAIN lines |-> SentOf(lines[i])])

total_received(lines) == SumInt([i \in DOMAIN lines |-> ReceivedOf(lines[i])])

parsed_dropped(lines) == SumInt([i \in DOMAIN lines |-> DroppedOf(lines[i])])

\* Variant: the difference is taken whenever more was sent than received.
total_dropped_always_inferred(lines) ==
    IF total_sent(lines) > total_received(lines)
    THEN total_sent(lines) - total_received(lines)
    ELSE parsed_dropped(lines)

\* total_dropped after the "temporary fix".
total_dropped(lines) ==
    IF total_sent(lines) > total_received(lines) /\ parsed_dropped(lines) = 0
    THEN total_sent(lines) - total_received(lines)
    ELSE parsed_dropped(lines)

\* x / y * 100
Percent(x, y) == Mul(Ratio(x, y), FromInt(100))

\* The value of calculate_packet_loss: the error message (error # "") or
\* the six results.
calculate_packet_loss(lines) ==
    LET sent     == total_sent(lines)
        received == total_received(lines)
        dropped  == total_dropped(lines)
    IN  IF sent = 0
        THEN [NoResults EXCEPT !.error = "Error: No sent packet data found"]
        ELSE [error              |-> "",
              total_sent         |-> sent,
              total_received     |-> received,
              total_dropped      |-> dropped,
              network_loss_rate  |-> Percent(sent - received, sent),
              receiver_loss_rate |-> IF received = 0 THEN FromInt(0)
                                     ELSE Percent(dropped, received),
              total_loss_rate    |-> Percent(sent - (received - dropped), sent)]

\* str(n) of an integer.
FormatSigned(n) == IF n < 0 THEN <<"-">> \o FormatInt(-n) ELSE FormatInt(n)

\* int(text) of a decimal with an optional sign.
ParseSigned(text) ==
    IF text # <<>> /\ text[1] = "-" THEN -ParseInt(Tail(text))
    ELSE ParseInt(text)

\* The Count column of loss_statistics.csv.
loss_statistics(res) ==
    [Total_Sent     |-> FormatSigned(res.total_sent),
     Total_Received |-> FormatSigned(res.total_received),
     Total_Dropped  |-> FormatSigned(res.total_dropped),
     Network_Loss   |-> FormatSigned(res.total_sent - res.total_received),
     Receiver_Loss  |-> FormatSigned(res.total_dropped),
     Total_Loss     |-> FormatSigned(res.total_sent -
                                     (res.total_received - res.total_dropped))]

\* The files that are not written hold no counts.
NoStatistics == loss_statistics(NoResults)

\* Variant: the report and the statistics are written besides the error
\* report.
save_loss_analysis_reporting_errors(res) ==
    [error_report      |-> res.error # "",
     loss_report       |-> TRUE,
     loss_statistics   |-> TRUE,
     statistics        |-> loss_statistics(res)]

\* The files of the output directory after save_loss_analysis: whether
\* error_report.txt, loss_analysis_report.txt and loss_statistics.csv are
\* written, and the counts written to loss_statistics.csv.
save_loss_analysis(res) ==
    IF res.error # ""
    THEN [error_report    |-> TRUE,
          loss_report     |-> FALSE,
          loss_statistics |-> FALSE,
          statistics      |-> NoStatistics]
    ELSE [error_report    |-> FALSE,
          loss_report     |-> TRUE,
          loss_statistics |-> TRUE,
          statistics      |-> loss_statistics(res)]

\* main() on an existing log file: the results are calculated and saved.
loss_analyzer_main ==
    /\ written = <<>>
    /\ results' = calculate_packet_loss(log)
    /\ written' = save_loss_analysis(calculate_packet_loss(log))
    /\ UNCHANGED log
    /\ UNCHANGED <<analyzer_vars, run_vars, other_vars>>

LossInit ==
    /\ NoAnalysis
    /\ NoRun
    /\ NoOther
    /\ log \in Logs
    /\ results = NoResults
    /\ written = <<>>

LossNext == loss_analyzer_main

LossSpec == LossInit /\ [][LossNext]_vars

----------------------------------------------------------------------------
(* Properties of the packet loss analysis.                                 *)

\* main() has analysed the log.
Analysed == written # <<>>

\* The sum of the numbers N of the lines "<prefix> ... <verb> N packets".
SumOfLines(prefix, verb) ==
    SumInt([i \in DOMAIN log |->
               IF log[i].prefix = prefix /\ log[i].verb = verb
                  /\ log[i].count # <<>>
               THEN ParseInt(log[i].count) ELSE 0])

\* C17: if after summing the whole log the sent total exceeds the received
\* total and the parsed dropped total is 0, the dropped total becomes
\* sent - received; in every other case the dropped total is exactly the sum
\* of the parsed 'Dropped N packets' values.
C17_DroppedFallback ==
    Analysed =>
        LET sent     == SumOfLines("Summary:", "Sent")
            received == SumOfLines("Port", "Received")
            dropped  == SumOfLines("Port", "Dropped")
            expected == IF sent > received /\ dropped = 0
                        THEN sent - received ELSE dropped
        IN  /\ total_dropped(log) = expected
            /\ results.error = "" => results.total_dropped = expected

\* Both cases in analysed logs: more sent than received with a 'Dropped 0
\* packets' line only, so that the difference is taken.
C17_Witness ==
    /\ Analysed
    /\ results.error = ""
    /\ SumOfLines("Port", "Dropped") = 0
    /\ \E i \in DOMAIN log : log[i].verb = "Dropped"
    /\ \E i \in DOMAIN log : log[i].verb = "Received" /\ log[i].prefix = "Port"
    /\ results.total_dropped = results.total_sent - results.total_received
    /\ results.total_dropped > 0

\* C18: for every log with a sent total greater than 0, the total loss count
\* sent - (received - dropped) returned by calculate_packet_loss and written
\* by save_loss_analysis is between 0 and sent, i.e. the total system loss
\* rate is within 0 to 100 percent.
C18_TotalLossWithinSent ==
    (Analysed /\ results.error = "") =>
        LET loss == ParseSigned(written.statistics.Total_Loss)
        IN  /\ 0 <= loss
            /\ loss <= results.total_sent
            /\ LessEq(FromInt(0), results.total_loss_rate)
            /\ LessEq(results.total_loss_rate, FromInt(100))

\* C19: when the log yields a sent total of 0, calculate_packet_loss returns
\* an error message instead of rates, without dividing by zero, and
\* save_loss_analysis then writes only error_report.txt: neither
\* loss_analysis_report.txt nor loss_statistics.csv is written.
C19_NoSentDataIsAnErrorReport ==
    (Analysed /\ SumOfLines("Summary:", "Sent") = 0) =>
        /\ results.error = "Error: No sent packet data found"
        /\ ~IsInf(results.network_loss_rate)
        /\ ~IsInf(results.total_loss_rate)
        /\ results = [NoResults EXCEPT !.error = results.error]
        /\ written.error_report
        /\ ~written.loss_report
        /\ ~written.loss_statistics

\* A log with received packets but no sent total has been analysed.
C19_Witness ==
    /\ Analysed
    /\ SumOfLines("Summary:", "Sent") = 0
    /\ SumOfLines("Port", "Received") > 0
    /\ \E i \in DOMAIN log : log[i].verb = "Sent"

----------------------------------------------------------------------------
(* credit_analyzer.py and network_visualizer.py: generate_mac_device_mapping *)
(* and the module-level tables MAC_TO_DEVICE_MAP and DEVICE_TO_MAC_MAP.    *)
(* A MAC address "00:00:00:00:00:hh" is modelled by its last byte as       *)
(* formatted, the string of hexadecimal digits hh; a dictionary by the     *)
(* function from its keys to their values.                                 *)

\* The greatest arguments generate_mac_device_mapping is called with.
MaxXpuCount == 4
MaxDevicesPerXpu == 8
MaxDevicesPerSwitch == 8

\* The default arguments of generate_mac_device_mapping.
DefaultXpuCount == 4
DefaultDevicesPerXpu == 8
DefaultDevicesPerSwitch == 8

DefaultMappingArgs ==
    [xpu_count |-> DefaultXpuCount, devices_per_xpu |-> DefaultDevicesPerXpu,
     devices_per_switch |-> DefaultDevicesPerSwitch]

HexDigit(n) ==
    CASE n = 10 -> "a" [] n = 11 -> "b" [] n = 12 -> "c" [] n = 13 -> "d"
      [] n = 14 -> "e" [] n = 15 -> "f" [] OTHER -> Digit(n)

RECURSIVE FormatHex(_)
FormatHex(n) ==
    IF n < 16 THEN <<HexDigit(n)>>
    ELSE Append(FormatHex(n \div 16), HexDigit(n % 16))

\* f"{n:02x}": hexadecimal, padded with a zero to two digits.
FormatHex02(n) == IF n < 16 THEN <<"0">> \o FormatHex(n) ELSE FormatHex(n)

\* int(text, 16)
RECURSIVE ParseHex(_)
ParseHex(text) ==
    IF text = <<>> THEN 0
    ELSE 16 * ParseHex(SubSeq(text, 1, Len(text) - 1))
         + (CHOOSE n \in 0..15 : HexDigit(n) = text[Len(text)])

\* f"XPU{xpu_id} Dev{dev_id}" and f"Switch{switch_id + 1} Dev{dev_id}"
DeviceName(kind, id, dev_id) ==
    [kind |-> kind, id |-> FormatInt(id), dev |-> FormatInt(dev_id)]

\* Variant: the XPU devices take the even bytes.
xpu_mac_last_byte_even(xpu_id, dev_id) == xpu_id * 16 + (dev_id - 1) * 2 + 2

\* mac_last_byte of the XPU loop.
xpu_mac_last_byte(xpu_id, dev_id) == xpu_id * 16 + (dev_id - 1) * 2 + 1

\* Variant: the devices of a switch follow one another without interleaving.
switch_mac_last_byte_contiguous(switch_id, dev_id) ==
    switch_id * 16 + dev_id * 2

\* mac_last_byte of the switch loop.
switch_mac_last_byte(switch_id, dev_id) ==
    IF dev_id <= 2 THEN switch_id * 4 + dev_id * 2
    ELSE IF dev_id <= 4 THEN 16 + switch_id * 4 + (dev_id - 2) * 2
    ELSE IF dev_id <= 6 THEN 32 + switch_id * 4 + (dev_id - 4) * 2
    ELSE 48 + switch_id * 4 + (dev_id - 6) * 2

\* The assignments mac_to_device_map[mac_addr] = device_name in the order
\* the two loops make them.
Assignments(args) ==
    LET nx == args.xpu_count * args.devices_per_xpu
        ns == args.xpu_count * args.devices_per_switch
    IN  [i \in 1..(nx + ns) |->
            IF i <= nx
            THEN LET xpu_id == (i - 1) \div args.devices_per_xpu
                     dev_id == ((i - 1) % args.devices_per_xpu) + 1
                 IN  [key   |-> FormatHex02(xpu_mac_last_byte(xpu_id, dev_id)),
                      value |-> DeviceName("XPU", xpu_id, dev_id)]
            ELSE LET switch_id == (i - nx - 1) \div args.devices_per_switch
                     dev_id    == ((i - nx - 1) % args.devices_per_switch) + 1
                 IN  [key   |-> FormatHex02(switch_mac_last_byte(switch_id,
                                                                dev_id)),
                      value |-> DeviceName("Switch", switch_id + 1, dev_id)]]

\* The dictionary a sequence of assignments leaves: each key with the value
\* assigned to it last.
DictOf(assigned) ==
    LET keys == {assigned[i].key : i \in DOMAIN assigned}
    IN  [k \in keys |->
            LET last == CHOOSE i \in DOMAIN assigned :
                            /\ assigned[i].key = k
                            /\ \A j \in DOMAIN assigned :
                                   j > i => assigned[j].key # k
            IN  assigned[last].value]

\* The place of a key in the iteration order of the dictionary: the index
\* of the first assignment to it.
Inserted(assigned, k) ==
    CHOOSE i \in DOMAIN assigned :
        /\ assigned[i].key = k
        /\ \A j \in 1..(i - 1) : assigned[j].key # k

\* generate_mac_device_mapping of credit_analyzer.py
generate_mac_device_mapping(args) == DictOf(Assignments(args))

\* The assignments of generate_mac_device_mapping of network_visualizer.py
network_visualizer_Assignments(args) ==
    LET nx == args.xpu_count * args.devices_per_xpu
        ns == args.xpu_count * args.devices_per_switch
        mac_last_byte(i) ==
            IF i <= nx
            THEN ((i - 1) \div args.devices_per_xpu) * 16
                 + ((i - 1) % args.devices_per_xpu) * 2 + 1
            ELSE LET switch_id == (i - nx - 1) \div args.devices_per_switch
                     dev_id    == ((i - nx - 1) % args.devices_per_switch) + 1
                 IN  CASE dev_id <= 2 -> switch_id * 4 + dev_id * 2
                       [] dev_id \in 3..4 ->
                             16 + switch_id * 4 + (dev_id - 2) * 2
                       [] dev_id \in 5..6 ->
                             32 + switch_id * 4 + (dev_id - 4) * 2
                       [] OTHER -> 48 + switch_id * 4 + (dev_id - 6) * 2
        device_name(i) ==
            IF i <= nx
            THEN DeviceName("XPU", (i - 1) \div args.devices_per_xpu,
                            ((i - 1) % args.devices_per_xpu) + 1)
            ELSE DeviceName("Switch",
                            ((i - nx - 1) \div args.devices_per_switch) + 1,
                            ((i - nx - 1) % args.devices_per_switch) + 1)
    IN  [i \in 1..(nx + ns) |->
            [key |-> FormatHex02(mac_last_byte(i)), value |-> device_name(i)]]

\* generate_mac_device_mapping of network_visualizer.py
network_visualizer_generate_mac_device_mapping(args) ==
    DictOf(network_visualizer_Assignments(args))

\* {v: k for k, v in mapping.items()}: each value with the key that comes
\* last, in the iteration order of the dictionary, among the keys that
\* carry it.
InverseOf(mapping, assigned) ==
    [v \in {mapping[k] : k \in DOMAIN mapping} |->
        CHOOSE k \in DOMAIN mapping :
            /\ mapping[k] = v
            /\ \A other \in DOMAIN mapping :
                   mapping[other] = v =>
                       Inserted(assigned, other) <= Inserted(assigned, k)]

\* The argument triples generate_mac_device_mapping is called with.
MappingArgs ==
    [xpu_count : 1..MaxXpuCount, devices_per_xpu : 1..MaxDevicesPerXpu,
     devices_per_switch : 1..MaxDevicesPerSwitch]

\* import credit_analyzer: lines 92-93 build the two tables.
credit_analyzer_import ==
    /\ module = "credit_analyzer"
    /\ MAC_TO_DEVICE_MAP = <<>>
    /\ MAC_TO_DEVICE_MAP' = generate_mac_device_mapping(mapping_args)
    /\ DEVICE_TO_MAC_MAP' =
          InverseOf(generate_mac_device_mapping(mapping_args),
                    Assignments(mapping_args))
    /\ UNCHANGED <<module, mapping_args>>
    /\ UNCHANGED <<analyzer_vars, run_vars, loss_vars, queue_vars, buffer_vars,
                   default_log_vars>>

\* import network_visualizer: lines 93-96 build the two tables.
network_visualizer_import ==
    /\ module = "network_visualizer"
    /\ MAC_TO_DEVICE_MAP = <<>>
    /\ MAC_TO_DEVICE_MAP' =
          network_visualizer_generate_mac_device_mapping(mapping_args)
    /\ DEVICE_TO_MAC_MAP' =
          InverseOf(network_visualizer_generate_mac_device_mapping(mapping_args),
                    network_visualizer_Assignments(mapping_args))
    /\ UNCHANGED <<module, mapping_args>>
    /\ UNCHANGED <<analyzer_vars, run_vars, loss_vars, queue_vars, buffer_vars,
                   default_log_vars>>

ImportInit ==
    /\ NoAnalysis
    /\ NoRun
    /\ NoLog
    /\ NoQueue
    /\ NoBuffer
    /\ NoDefaultLog
    /\ module \in {"credit_analyzer", "network_visualizer"}
    /\ mapping_args \in MappingArgs
    /\ MAC_TO_DEVICE_MAP = <<>>
    /\ DEVICE_TO_MAC_MAP = <<>>

ImportNext == credit_analyzer_import \/ network_visualizer_import

ImportSpec == ImportInit /\ [][ImportNext]_vars

----------------------------------------------------------------------------
(* Properties of the MAC address tables.                                   *)

Imported == MAC_TO_DEVICE_MAP # <<>>

ImportedWithDefaults == Imported /\ mapping_args = DefaultMappingArgs

\* The rows of the docstring table for the switches with index 0 and 3.
DocstringSwitch0 ==
    << <<"0", "2">>, <<"0", "4">>, <<"1", "2">>, <<"1", "4">>,
       <<"2", "2">>, <<"2", "4">>, <<"3", "2">>, <<"3", "4">> >>

DocstringSwitch3 ==
    << <<"0", "e">>, <<"1", "0">>, <<"1", "e">>, <<"2", "0">>,
       <<"2", "e">>, <<"3", "0">>, <<"3", "e">>, <<"4", "0">> >>

\* C22: with the default parameters, the device d (1..8) of XPU x (0..3) is
\* found at the last byte x*0x10 + (d-1)*2 + 1; the devices 1..8 of the
\* switches with index 0 and 3 (named Switch1 and Switch4) are found at the
\* bytes of the docstring table; every key of an XPU device is odd and
\* every key of a switch device is even.
C22_DefaultMappingFollowsAddressPlan ==
    ImportedWithDefaults =>
        /\ \A x \in 0..3, d \in 1..8 :
              LET k == FormatHex02(x * 16 + (d - 1) * 2 + 1)
              IN  /\ k \in DOMAIN MAC_TO_DEVICE_MAP
                  /\ MAC_TO_DEVICE_MAP[k] = DeviceName("XPU", x, d)
        /\ \A d \in 1..8 :
              /\ DocstringSwitch0[d] \in DOMAIN MAC_TO_DEVICE_MAP
              /\ MAC_TO_DEVICE_MAP[DocstringSwitch0[d]]
                     = DeviceName("Switch", 1, d)
              /\ DocstringSwitch3[d] \in DOMAIN MAC_TO_DEVICE_MAP
              /\ MAC_TO_DEVICE_MAP[DocstringSwitch3[d]]
                     = DeviceName("Switch", 4, d)
        /\ \A k \in DOMAIN MAC_TO_DEVICE_MAP :
              /\ MAC_TO_DEVICE_MAP[k].kind = "XPU" => ParseHex(k) % 2 = 1
              /\ MAC_TO_DEVICE_MAP[k].kind = "Switch" => ParseHex(k) % 2 = 0

C22_Witness ==
    /\ ImportedWithDefaults
    /\ module = "credit_analyzer"
    /\ <<"4", "0">> \in DOMAIN MAC_TO_DEVICE_MAP

\* C23: with the default parameters MAC_TO_DEVICE_MAP has 64 keys and 64
\* distinct device names, DEVICE_TO_MAC_MAP leads from the name of every
\* key back to that key, and the table is the one either script builds.
C23_DefaultTablesAreInverseAndShared ==
    ImportedWithDefaults =>
        /\ Cardinality(DOMAIN MAC_TO_DEVICE_MAP) = 64
        /\ Cardinality({MAC_TO_DEVICE_MAP[m] : m \in DOMAIN MAC_TO_DEVICE_MAP})
               = 64
        /\ \A m \in DOMAIN MAC_TO_DEVICE_MAP :
              /\ MAC_TO_DEVICE_MAP[m] \in DOMAIN DEVICE_TO_MAC_MAP
              /\ DEVICE_TO_MAC_MAP[MAC_TO_DEVICE_MAP[m]] = m
        /\ MAC_TO_DEVICE_MAP = generate_mac_device_mapping(mapping_args)
        /\ MAC_TO_DEVICE_MAP =
               network_visualizer_generate_mac_device_mapping(mapping_args)

C23_Witness ==
    /\ ImportedWithDefaults
    /\ module = "network_visualizer"
    /\ Cardinality(DOMAIN DEVICE_TO_MAC_MAP) = 64

----------------------------------------------------------------------------
(* queue_usage_analyzer.py: main and the plot functions it calls.  A table *)
(* is the set of its rows, a row the XpuId and DeviceId it carries; a file *)
(* name is the sequence of the pieces its f-string joins.                  *)

\* The greatest number of rows of a processing queue table.
MaxQueueRows == 2

\* n_xpus of xpu_id_to_switch_number, and the nXpus main assumes.
n_xpus == 4

QueueRows == [XpuId : {1, 2, 5, 6}, DeviceId : {1, 2}]

QueueTables(max) == {rows \in SUBSET QueueRows : Cardinality(rows) <= max}

QueueCommandLines ==
    [xpu_id : {1, 2}, device_id : {1, 2}, switch_id : {5, 6},
     include_processing : BOOLEAN, auto_detect : BOOLEAN]

\* What load_latest_data returns: three times None, or the destination and
\* device tables with the processing table or None.
QueueData ==
    {[dest |-> NoQueueData, device |-> NoQueueData,
      processing |-> NoQueueData]}
    \cup [dest : [loaded : {TRUE}, VcId : BOOLEAN, rows : QueueTables(1)],
          device : [loaded : {TRUE}, VcId : {FALSE}, rows : QueueTables(1)],
          processing : {NoQueueData}
              \cup [loaded : {TRUE}, VcId : {FALSE},
                    rows : QueueTables(MaxQueueRows)]]

xpu_id_to_switch_number(xpu_id) ==
    IF xpu_id <= n_xpus THEN xpu_id ELSE xpu_id - n_xpus

\* sorted(data['XpuId'].unique())
unique_xpu_ids(data) == Sorted({row.XpuId : row \in data.rows})

\* sorted(data[data['XpuId'] == xpu_id]['DeviceId'].unique())
unique_device_ids(data, xpu_id) ==
    Sorted({row.DeviceId : row \in {r \in data.rows : r.XpuId = xpu_id}})

\* main, lines 539-548: the XPU and the device --auto-detect finds.
auto_detect_xpu(given, processing) ==
    IF given.auto_detect /\ processing.loaded
          /\ unique_xpu_ids(processing) # <<>>
    THEN LET xpu == unique_xpu_ids(processing)[1]
             devices == unique_device_ids(processing, xpu)
         IN  [given EXCEPT !.xpu_id = xpu,
                           !.device_id = IF devices # <<>> THEN devices[1]
                                         ELSE given.device_id]
    ELSE given

\* Variant: the switch is the first device past n_xpus or the default.
auto_detect_switch_without_fallback(given, processing) ==
    IF given.auto_detect /\ processing.loaded
    THEN LET ids == unique_xpu_ids(processing)
             switch_xpu_ids == SelectSeq(ids, LAMBDA id : id > 4)
         IN  IF switch_xpu_ids # <<>>
             THEN [given EXCEPT !.switch_id = switch_xpu_ids[1]]
             ELSE given
    ELSE given

\* main, lines 551-572: the switch --auto-detect finds.
auto_detect_switch(given, processing) ==
    IF given.auto_detect /\ processing.loaded
    THEN LET ids == unique_xpu_ids(processing)
             switch_xpu_ids == SelectSeq(ids, LAMBDA id : id > 4)
         IN  IF switch_xpu_ids # <<>>
             THEN [given EXCEPT !.switch_id = switch_xpu_ids[1]]
             ELSE IF Len(ids) > 1
                  THEN [given EXCEPT !.switch_id = ids[Len(ids)]]
                  ELSE given
    ELSE given

\* data[(data['XpuId'] == xpu_id) & (data['DeviceId'] == device_id)]
DeviceRows(data, xpu_id, device_id) ==
    {row \in data.rows : row.XpuId = xpu_id /\ row.DeviceId = device_id}

xpu_destination_png(xpu_id) ==
    <<"xpu">> \o FormatInt(xpu_id) \o <<"_destination_queues_by_sue.png">>

xpu_device_png(xpu_id, device_id) ==
    <<"xpu">> \o FormatInt(xpu_id) \o <<"_device">> \o FormatInt(device_id)
        \o <<"_queues.png">>

switch_device_png(switch_number, device_id) ==
    <<"switch">> \o FormatInt(switch_number) \o <<"_device">>
        \o FormatInt(device_id) \o <<"_queues.png">>

xpu_processing_png(xpu_id, device_id) ==
    <<"xpu">> \o FormatInt(xpu_id) \o <<"_device">> \o FormatInt(device_id)
        \o <<"_processing_queues.png">>

switch_processing_png(switch_number, device_id) ==
    <<"switch">> \o FormatInt(switch_number) \o <<"_device">>
        \o FormatInt(device_id) \o <<"_processing_queues.png">>

\* The files each plot function saves.
plot_xpu_destination_queues(data, xpu_id) ==
    IF \/ ~data.loaded
       \/ data.rows = {}
       \/ {row \in data.rows : row.XpuId = xpu_id} = {}
       \/ ~data.VcId
    THEN {}
    ELSE {xpu_destination_png(xpu_id)}

plot_xpu_device_queues(data, xpu_id, device_id) ==
    IF ~data.loaded \/ data.rows = {}
          \/ DeviceRows(data, xpu_id, device_id) = {}
    THEN {}
    ELSE {xpu_device_png(xpu_id, device_id)}

plot_switch_device_queues(data, switch_id, device_id) ==
    IF ~data.loaded \/ data.rows = {}
          \/ DeviceRows(data, switch_id, device_id) = {}
    THEN {}
    ELSE {switch_device_png(xpu_id_to_switch_number(switch_id), device_id)}

plot_processing_queue_analysis(rows, xpu_id, device_id, is_switch) ==
    IF rows = {}
          \/ {row \in rows : row.XpuId = xpu_id /\ row.DeviceId = device_id}
                 = {}
    THEN {}
    ELSE IF is_switch
         THEN {switch_processing_png(xpu_id_to_switch_number(xpu_id),
                                     device_id)}
         ELSE {xpu_processing_png(xpu_id, device_id)}

\* main, lines 585-612: the charts of one run.
ChartsSaved(given, dest, device, processing) ==
    (IF dest.loaded
     THEN plot_xpu_destination_queues(dest, given.xpu_id) ELSE {})
    \cup
    (IF device.loaded
     THEN plot_xpu_device_queues(device, given.xpu_id, given.device_id)
          \cup plot_switch_device_queues(device, given.switch_id,
                                         given.device_id)
     ELSE {})
    \cup
    (IF given.include_processing /\ processing.loaded
     THEN plot_processing_queue_analysis(processing.rows, given.xpu_id,
                                         given.device_id, FALSE)
          \cup
          (IF DeviceRows(processing, given.switch_id, 1) # {}
           THEN plot_processing_queue_analysis(
                    DeviceRows(processing, given.switch_id, 1),
                    given.switch_id, 1, TRUE)
           ELSE {})
     ELSE {})

\* main, lines 617-635: generated_files
GeneratedFiles(given, dest, device, processing) ==
    (IF dest.loaded THEN <<xpu_destination_png(given.xpu_id)>> ELSE <<>>)
    \o
    (IF device.loaded
     THEN <<xpu_device_png(given.xpu_id, given.device_id),
            switch_device_png(xpu_id_to_switch_number(given.switch_id),
                              given.device_id)>>
     ELSE <<>>)
    \o
    (IF given.include_processing /\ processing.loaded
     THEN <<xpu_processing_png(given.xpu_id, given.device_id)>>
          \o (IF DeviceRows(processing, given.switch_id, 1) # {}
              THEN <<switch_processing_png(
                         xpu_id_to_switch_number(given.switch_id), 1)>>
              ELSE <<>>)
     ELSE <<>>)

queue_usage_analyzer_main ==
    /\ queue_exit = "running"
    /\ IF ~dest_data.loaded /\ ~device_data.loaded /\ ~processing_data.loaded
       THEN /\ queue_exit' = "1"
            /\ UNCHANGED <<queue_args, generated_files, saved_charts>>
       ELSE LET detected ==
                    auto_detect_switch(
                        auto_detect_xpu(queue_args, processing_data),
                        processing_data)
            IN  /\ queue_args' = detected
                /\ saved_charts' = ChartsSaved(detected, dest_data,
                                               device_data, processing_data)
                /\ generated_files' =
                       GeneratedFiles(detected, dest_data, device_data,
                                      processing_data)
                /\ queue_exit' = "0"
    /\ UNCHANGED <<command_line, dest_data, device_data, processing_data>>
    /\ UNCHANGED <<analyzer_vars, run_vars, loss_vars, import_vars, buffer_vars,
                   default_log_vars>>

QueueInit ==
    /\ NoAnalysis
    /\ NoRun
    /\ NoLog
    /\ NoImport
    /\ NoBuffer
    /\ NoDefaultLog
    /\ command_line \in QueueCommandLines
    /\ queue_args = command_line
    /\ \E loaded \in QueueData :
          /\ dest_data = loaded.dest
          /\ device_data = loaded.device
          /\ processing_data = loaded.processing
    /\ generated_files = <<>>
    /\ saved_charts = {}
    /\ queue_exit = "running"

QueueNext == queue_usage_analyzer_main

QueueSpec == QueueInit /\ [][QueueNext]_vars

----------------------------------------------------------------------------
(* Properties of queue_usage_analyzer.                                     *)

QueueDone == queue_exit = "0"

ProcessingXpuIds == {row.XpuId : row \in processing_data.rows}

Detecting == command_line.auto_detect /\ processing_data.loaded

\* C24: after main with --auto-detect and a processing table, xpu_id is the
\* smallest XpuId of the table and device_id the smallest DeviceId of that
\* XpuId's rows (a table without rows leaves both); switch_id is the
\* smallest XpuId above 4, or without one the largest XpuId if the table
\* has two or more, or else the value given.  Without --auto-detect or
\* without a processing table the three keep the values given.
C24_AutoDetectPicksSmallestIds ==
    QueueDone =>
        /\ (Detecting /\ ProcessingXpuIds # {}) =>
              /\ queue_args.xpu_id \in ProcessingXpuIds
              /\ \A id \in ProcessingXpuIds : queue_args.xpu_id <= id
              /\ \E row \in processing_data.rows :
                    /\ row.XpuId = queue_args.xpu_id
                    /\ row.DeviceId = queue_args.device_id
              /\ \A row \in processing_data.rows :
                    row.XpuId = queue_args.xpu_id
                        => queue_args.device_id <= row.DeviceId
        /\ (Detecting /\ ProcessingXpuIds = {}) =>
              /\ queue_args.xpu_id = command_line.xpu_id
              /\ queue_args.device_id = command_line.device_id
        /\ (Detecting /\ \E id \in ProcessingXpuIds : id > 4) =>
              /\ queue_args.switch_id \in ProcessingXpuIds
              /\ queue_args.switch_id > 4
              /\ \A id \in ProcessingXpuIds :
                    id > 4 => queue_args.switch_id <= id
        /\ (Detecting /\ \A id \in ProcessingXpuIds : id <= 4) =>
              IF Cardinality(ProcessingXpuIds) >= 2
              THEN /\ queue_args.switch_id \in ProcessingXpuIds
                   /\ \A id \in ProcessingXpuIds : id <= queue_args.switch_id
              ELSE queue_args.switch_id = command_line.switch_id
        /\ ~Detecting => queue_args = command_line

\* The fallback of the switch: two XPUs and no switch in the table.
C24_Witness ==
    /\ QueueDone
    /\ Detecting
    /\ ProcessingXpuIds = {1, 2}
    /\ queue_args.switch_id = 2
    /\ command_line.xpu_id = 2
    /\ queue_args.xpu_id = 1

\* C25: every file name listed under "Generated charts" is the name of a
\* chart the run has saved.
C25_ListedChartsWereWritten ==
    QueueDone =>
        \A i \in DOMAIN generated_files : generated_files[i] \in saved_charts

----------------------------------------------------------------------------
(* sue_buffer_queue_analyzer.py: load_and_preprocess_data row by row, and  *)
(* main from the loaded file on.  A file is the set of required columns it *)
(* has and the sequence of its rows.                                       *)

\* The greatest number of rows of a buffer queue file.
MaxBufferRows == 2

required_columns == {"TimeNs", "XpuId", "BufferSize"}

BufferRows == [TimeNs : {1000, 2500}, XpuId : {1, 2}]

BufferFiles ==
    [columns : SUBSET required_columns,
     rows : UNION {[1..n -> BufferRows] : n \in 0..MaxBufferRows}]

\* df['TimeUs'] = df['TimeNs'] / 1000.0
WithTimeUs(rows) ==
    [i \in DOMAIN rows |->
        [TimeNs |-> rows[i].TimeNs, XpuId |-> rows[i].XpuId,
         TimeUs |-> Ratio(rows[i].TimeNs, 1000)]]

\* Variant: the rows of XPU 1 even when there are none.
preprocess_rows_always_filtering(file) ==
    IF required_columns \ file.columns # {} THEN NoBufferData
    ELSE [loaded |-> TRUE,
          rows |-> SelectSeq(WithTimeUs(file.rows),
                             LAMBDA row : row.XpuId = 1)]

\* load_and_preprocess_data, lines 79-104
preprocess_rows(file) ==
    IF required_columns \ file.columns # {} THEN NoBufferData
    ELSE LET with_time == WithTimeUs(file.rows)
             xpu_1_data == SelectSeq(with_time, LAMBDA row : row.XpuId = 1)
         IN  IF xpu_1_data = <<>>
             THEN [loaded |-> TRUE, rows |-> with_time]
             ELSE [loaded |-> TRUE, rows |-> xpu_1_data]

\* main, lines 362-389, with the data file found.
sue_buffer_queue_analyzer_load ==
    /\ buffer_exit = "running"
    /\ buffer_df' = preprocess_rows(buffer_csv)
    /\ IF ~preprocess_rows(buffer_csv).loaded
       THEN /\ buffer_outputs' = {}
            /\ buffer_exit' = "1"
       ELSE \E raises \in SUBSET Range(Charts("sue_buffer_queue_analyzer")) :
               /\ buffer_outputs' =
                     {"output_dir"}
                     \cup UntilFirstRaise(Charts("sue_buffer_queue_analyzer"),
                                          raises)
               /\ buffer_exit' = IF raises = {} THEN "0" ELSE "1"
    /\ UNCHANGED buffer_csv
    /\ UNCHANGED <<analyzer_vars, run_vars, loss_vars, import_vars, queue_vars,
                   default_log_vars>>

BufferInit ==
    /\ NoAnalysis
    /\ NoRun
    /\ NoLog
    /\ NoImport
    /\ NoQueue
    /\ NoDefaultLog
    /\ buffer_csv \in BufferFiles
    /\ buffer_df = NoBufferData
    /\ buffer_outputs = {}
    /\ buffer_exit = "running"

BufferNext == sue_buffer_queue_analyzer_load

BufferSpec == BufferInit /\ [][BufferNext]_vars

----------------------------------------------------------------------------
(* Properties of load_and_preprocess_data.                                 *)

BufferExited == buffer_exit \in {"0", "1"}

\* The rows of the file as they were read, without the column added.
AsRead(rows) ==
    [i \in DOMAIN rows |-> [TimeNs |-> rows[i].TimeNs, XpuId |-> rows[i].XpuId]]

HasXpu1 == \E i \in DOMAIN buffer_csv.rows : buffer_csv.rows[i].XpuId = 1

\* C26: load_and_preprocess_data returns the rows with XpuId = 1, in the
\* order of the file, when the file has such a row, and every row when it
\* has none; it returns None when TimeNs, XpuId or BufferSize is missing,
\* and main then exits with status 1 without a directory or file created.
C26_LoaderKeepsXpu1OrEverything ==
    BufferExited =>
        /\ (required_columns \subseteq buffer_csv.columns /\ HasXpu1) =>
              /\ buffer_df.loaded
              /\ AsRead(buffer_df.rows)
                     = SelectSeq(buffer_csv.rows, LAMBDA row : row.XpuId = 1)
        /\ (required_columns \subseteq buffer_csv.columns /\ ~HasXpu1) =>
              /\ buffer_df.loaded
              /\ AsRead(buffer_df.rows) = buffer_csv.rows
        /\ ~(required_columns \subseteq buffer_csv.columns) =>
              /\ buffer_df = NoBufferData
              /\ buffer_exit = "1"
              /\ buffer_outputs = {}

\* A file of XPU 2 only is analysed whole.
C26_Witness ==
    /\ BufferExited
    /\ required_columns \subseteq buffer_csv.columns
    /\ ~HasXpu1
    /\ Len(buffer_df.rows) = 2
    /\ "output_dir" \in buffer_outputs

----------------------------------------------------------------------------
(* loss_analyzer.py: find_default_log_file and contains_valid_data.  The   *)
(* log directory is the sequence of its *.log files in the order glob      *)
(* yields them; a file is its name, whether it can be read, the words its  *)
(* content holds and its modification time.                                *)

\* The greatest number of *.log files in the log directory.
MaxLogFiles == 2

LogNames == {"sue-sim.log", "app.log", "run.log", "old.log"}

LogContents ==
    {[readable |-> TRUE, words |-> {}],
     [readable |-> TRUE, words |-> {"Dropped"}],
     [readable |-> TRUE, words |-> {"Warning"}],
     [readable |-> FALSE, words |-> {"Dropped"}]}

LogFiles == [name : LogNames, content : LogContents, mtime : Times]

LogDirectories ==
    {[exists |-> FALSE, files |-> <<>>]}
    \cup [exists : {TRUE},
          files : {files \in UNION {[1..n -> LogFiles] : n \in 0..MaxLogFiles} :
                      \A i, j \in DOMAIN files :
                          files[i].name = files[j].name => i = j}]

possible_files == <<"sue-sim.log", "sue-sim.log", "app.log">>

Keywords == {"Summary: Sent", "Received", "Dropped", "Sent", "packets", "Total"}

contains_valid_data(file) ==
    file.content.readable /\ file.content.words \cap Keywords # {}

\* max(log_files, key=lambda x: x.stat().st_mtime)
LatestLog(files) ==
    files[CHOOSE i \in DOMAIN files :
              /\ \A j \in DOMAIN files : files[j].mtime <= files[i].mtime
              /\ \A j \in 1..(i - 1) : files[j].mtime < files[i].mtime]

\* Variant: without the search for other files with valid data.
find_default_log_file_preferred_or_latest(dir) ==
    IF ~dir.exists \/ dir.files = <<>> THEN "None"
    ELSE LET named == SelectSeq(possible_files, LAMBDA name :
                         \E i \in DOMAIN dir.files :
                             /\ dir.files[i].name = name
                             /\ contains_valid_data(dir.files[i]))
         IN  IF named # <<>> THEN named[1] ELSE LatestLog(dir.files).name

find_default_log_file(dir) ==
    IF ~dir.exists THEN "None"
    ELSE LET log_files == dir.files
             named == SelectSeq(possible_files, LAMBDA name :
                         \E i \in DOMAIN log_files :
                             /\ log_files[i].name = name
                             /\ contains_valid_data(log_files[i]))
             valid == SelectSeq(log_files, contains_valid_data)
         IN  IF named # <<>> THEN named[1]
             ELSE IF valid # <<>> THEN valid[1].name
             ELSE IF log_files # <<>> THEN LatestLog(log_files).name
             ELSE "None"

\* main, lines 194-196: no log file on the command line.
loss_analyzer_find_default ==
    /\ default_log_file = ""
    /\ default_log_file' = find_default_log_file(log_dir)
    /\ UNCHANGED log_dir
    /\ UNCHANGED <<analyzer_vars, run_vars, loss_vars, import_vars, queue_vars,
                   buffer_vars>>

DefaultLogInit ==
    /\ NoAnalysis
    /\ NoRun
    /\ NoLog
    /\ NoImport
    /\ NoQueue
    /\ NoBuffer
    /\ log_dir \in LogDirectories
    /\ default_log_file = ""

DefaultLogNext == loss_analyzer_find_default

DefaultLogSpec == DefaultLogInit /\ [][DefaultLogNext]_vars

----------------------------------------------------------------------------
(* Properties of find_default_log_file.                                    *)

Found == default_log_file # ""

ValidLogs ==
    {i \in DOMAIN log_dir.files :
        /\ log_dir.files[i].content.readable
        /\ log_dir.files[i].content.words \cap Keywords # {}}

ValidNames == {log_dir.files[i].name : i \in ValidLogs}

\* C27: find_default_log_file returns sue-sim.log if it holds valid data,
\* else app.log if it does; else the first *.log file with valid data; else
\* the most recently modified *.log file; and None exactly when the log
\* directory is missing or has no *.log file.
C27_DefaultLogPreference ==
    Found =>
        /\ default_log_file = "None"
              <=> (~log_dir.exists \/ log_dir.files = <<>>)
        /\ "sue-sim.log" \in ValidNames => default_log_file = "sue-sim.log"
        /\ ("sue-sim.log" \notin ValidNames /\ "app.log" \in ValidNames)
              => default_log_file = "app.log"
        /\ (ValidLogs # {} /\ ValidNames \cap {"sue-sim.log", "app.log"} = {})
              => \E i \in ValidLogs :
                    /\ default_log_file = log_dir.files[i].name
                    /\ \A j \in ValidLogs : i <= j
        /\ (ValidLogs = {} /\ log_dir.files # <<>>)
              => \E i \in DOMAIN log_dir.files :
                    /\ default_log_file = log_dir.files[i].name
                    /\ \A j \in DOMAIN log_dir.files :
                          log_dir.files[j].mtime <= log_dir.files[i].mtime

\* A valid file without a preferred name is taken although a newer file
\* stands before it.
C27_Witness ==
    /\ Found
    /\ Len(log_dir.files) = 2
    /\ ValidLogs = {2}
    /\ log_dir.files[1].mtime > log_dir.files[2].mtime
    /\ default_log_file = log_dir.files[2].name
    /\ default_log_file \notin {"sue-sim.log", "app.log"}

----------------------------------------------------------------------------
(* Properties of the zero guards and of the two measures of spread.        *)

\* C28: every count of sue_counts is at least 1, so the mean and the
\* minimum of the counts and ideal_per_sue are greater than 0 in every
\* record: cv, rsd and max_min_ratio are the quotients, none is the value of
\* its zero guard, max_min_ratio is finite, and the divisor ideal_per_sue of
\* the report is not zero.
C28_ZeroGuardsNeverTaken ==
    pc = "calculated" =>
        \A x \in DOMAIN metrics :
            LET m      == metrics[x]
                counts == Values(m.sue_counts)
            IN  /\ \A i \in DOMAIN counts : counts[i] >= 1
                /\ Sign(np_mean(counts)) > 0
                /\ np_min(counts) > 0
                /\ Sign(m.ideal_per_sue) > 0
                /\ ~IsInf(m.max_min_ratio)
                /\ Equal(m.cv, Div(np_std(counts), np_mean(counts)))
                /\ Equal(m.rsd, Mul(Div(np_std(counts), m.ideal_per_sue),
                                    FromInt(100)))
                /\ Equal(m.max_min_ratio,
                         Ratio(np_max(counts), np_min(counts)))

\* Two local ids that do not share a SueId: zero-filled counts would hold
\* a zero.
C28_Witness ==
    /\ pc = "calculated"
    /\ \E x, y \in DOMAIN metrics :
          /\ x # y
          /\ \E i \in DOMAIN metrics[x].sue_counts :
                \A j \in DOMAIN metrics[y].sue_counts :
                    metrics[y].sue_counts[j].index
                        # metrics[x].sue_counts[i].index

----------------------------------------------------------------------------
(* float64 arithmetic on rationals.  A float is kept as the rational x it  *)
(* stands for and its distance err from x, in units in the last place of   *)
(* x: its value is x + err / 2^Scale(x).  The significand of x itself is   *)
(* never formed, only its remainder modulo the denominator of x.           *)

\* The binary exponent of p/q > 0: the e with 2^e <= p/q < 2^(e+1).
RECURSIVE NegativeExponent(_, _)
NegativeExponent(p, q) ==
    IF p >= q THEN 0 ELSE NegativeExponent(2 * p, q) - 1

BinaryExponent(x) ==
    IF x.a >= x.d THEN Exponent(x.a, x.d) ELSE NegativeExponent(x.a, x.d)

\* The s with x * 2^s in [2^52, 2^53): one unit in the last place of x is
\* 2^-s.
Scale(x) == (SignificandBits - 1) - BinaryExponent(x)

\* 2^k for an integer k of either sign.
Pow2Ratio(k) == IF k >= 0 THEN FromInt(Pow2(k)) ELSE Ratio(1, Pow2(-k))

\* x * 2^Scale(x) = I + GridFraction(x) with I an integer; GridOdd(x) is
\* the parity of I.
GridFraction(x) == Ratio(((x.a % x.d) * Pow2Mod(Scale(x), x.d)) % x.d, x.d)

GridOdd(x) ==
    ((x.a % (2 * x.d)) * Pow2Mod(Scale(x), 2 * x.d)) % (2 * x.d) >= x.d

Float64Zero == [exact |-> FromInt(0), err |-> FromInt(0)]

\* The float nearest to x + dev / 2^Scale(x), ties to even.
RoundToGrid(x, dev) ==
    LET y     == Add(GridFraction(x), dev)
        floor == y.a \div y.d
        rest  == Sub(y, FromInt(floor))
        odd   == GridOdd(x) # (floor % 2 = 1)
        up    == \/ Less(Ratio(1, 2), rest)
                 \/ Equal(Ratio(1, 2), rest) /\ odd
        n     == IF up THEN floor + 1 ELSE floor
    IN  [exact |-> x, err |-> Sub(FromInt(n), GridFraction(x))]

\* The float64 nearest to the rational x >= 0.
Float64(x) ==
    IF Sign(x) = 0 THEN Float64Zero ELSE RoundToGrid(x, FromInt(0))

\* err of the float f, in units in the last place of x.
Rescaled(f, x) == Mul(f.err, Pow2Ratio(Scale(x) - Scale(f.exact)))

\* f * k for an integer k > 0.
Float64Times(f, k) ==
    IF Sign(f.exact) = 0 THEN Float64Zero
    ELSE LET x == Mul(f.exact, FromInt(k))
         IN  RoundToGrid(x, Mul(Rescaled(f, x), FromInt(k)))

\* f / n for an integer n > 0.
Float64Over(f, n) ==
    IF Sign(f.exact) = 0 THEN Float64Zero
    ELSE LET x == Div(f.exact, FromInt(n))
         IN  RoundToGrid(x, Div(Rescaled(f, x), FromInt(n)))

\* f + g
Float64Plus(f, g) ==
    IF Sign(f.exact) = 0 THEN g
    ELSE IF Sign(g.exact) = 0 THEN f
    ELSE LET x == Add(f.exact, g.exact)
         IN  RoundToGrid(x, Add(Rescaled(f, x), Rescaled(g, x)))

\* f < g: floats that stand for different rationals of the tables compared
\* lie in the order of the rationals; floats that stand for the same
\* rational lie in the order of their distances from it.
Float64Less(f, g) ==
    IF Equal(f.exact, g.exact) THEN Less(f.err, g.err)
    ELSE Less(f.exact, g.exact)

----------------------------------------------------------------------------
(* generate_analysis_report, lines 357-372: the averages of the assessment *)
(* in float64, for records whose standard deviation and mean are computed *)
(* without rounding.                                                       *)

\* x = n / 2^k: a rational that float64 holds exactly.
IsDyadic(x) == x.b = 0 /\ \E k \in 0..10 : x.d = Pow2(k)

\* np.std and np.mean of the counts of m are exact.
ExactSpread(m) ==
    /\ IsDyadic(np_std(Values(m.sue_counts)))
    /\ IsDyadic(np_mean(Values(m.sue_counts)))

\* metrics.values(): the records in the order of their keys.
MetricsValues(ms) ==
    LET keys == Sorted(DOMAIN ms) IN [i \in DOMAIN keys |-> ms[keys[i]]]

\* m['cv'] as float64: np.std(actual_counts) / np.mean(actual_counts)
float_cv(m) ==
    Float64(Div(np_std(Values(m.sue_counts)), np_mean(Values(m.sue_counts))))

\* m['rsd'] as float64: (np.std(actual_counts) / ideal_per_sue) * 100
float_rsd(m) ==
    Float64Times(Float64(Div(np_std(Values(m.sue_counts)), m.ideal_per_sue)),
                 100)

RECURSIVE Float64Sum(_)
Float64Sum(fs) ==
    IF fs = <<>> THEN Float64Zero
    ELSE Float64Plus(Float64Sum(SubSeq(fs, 1, Len(fs) - 1)), fs[Len(fs)])

\* np.mean of a list of floats.
np_mean_float(fs) == Float64Over(Float64Sum(fs), Len(fs))

avg_cv(ms) ==
    np_mean_float([i \in DOMAIN MetricsValues(ms) |->
                      float_cv(MetricsValues(ms)[i])])

avg_rsd(ms) ==
    np_mean_float([i \in DOMAIN MetricsValues(ms) |->
                      float_rsd(MetricsValues(ms)[i])])

----------------------------------------------------------------------------
(* Properties of rsd and cv.                                               *)

ExactlyReported ==
    /\ pc = "reported"
    /\ \A x \in DOMAIN metrics : ExactSpread(metrics[x])

\* avg_cv < t and avg_rsd < 100 * t, as the report compares them.
CvBelow(t) == Float64Less(avg_cv(metrics), Float64(t))

RsdBelow(t) == Float64Less(avg_rsd(metrics), Float64(Mul(t, FromInt(100))))

\* rsd is 100 times cv, and rsd_score is at least cv_score, in every record.
RsdIsHundredTimesCv ==
    \A x \in DOMAIN metrics :
        /\ Equal(metrics[x].rsd, Mul(metrics[x].cv, FromInt(100)))
        /\ LessEq(cv_score(metrics[x]), rsd_score(metrics[x]))
        /\ ExactSpread(metrics[x]) =>
              float_rsd(metrics[x]) = Float64Times(float_cv(metrics[x]), 100)

\* C29 as stated: rsd is exactly 100 times cv for every local id, rsd_score
\* is at least cv_score, and the report finds the average rsd below 10
\* (below 20) exactly when it finds the average cv below 0.1 (below 0.2).
C29_ThresholdsAgree ==
    pc = "reported" =>
        /\ RsdIsHundredTimesCv
        /\ ExactlyReported =>
              /\ RsdBelow(Ratio(1, 10)) <=> CvBelow(Ratio(1, 10))
              /\ RsdBelow(Ratio(1, 5)) <=> CvBelow(Ratio(1, 5))

\* C29, amended: rsd is exactly 100 times cv for every local id and
\* rsd_score is at least cv_score; the report finds the average rsd below
\* 10 (below 20) exactly when it finds the average cv below 0.1 (below
\* 0.2), unless the average cv is the threshold itself, where the rounding
\* of the float64 averages decides either comparison on its own.
C29_ThresholdsAgreeOffTheBoundary ==
    pc = "reported" =>
        /\ RsdIsHundredTimesCv
        /\ ExactlyReported =>
              /\ ~Equal(avg_cv(metrics).exact, Ratio(1, 10)) =>
                    (RsdBelow(Ratio(1, 10)) <=> CvBelow(Ratio(1, 10)))
              /\ ~Equal(avg_cv(metrics).exact, Ratio(1, 5)) =>
                    (RsdBelow(Ratio(1, 5)) <=> CvBelow(Ratio(1, 5)))

\* Three records with cv 0, 0 and 0.6: the average cv is
\* 0.19999999999999998, below 0.2, and the average rsd is 20.0, not below
\* 20.
C29_Witness ==
    /\ ExactlyReported
    /\ Equal(avg_cv(metrics).exact, Ratio(1, 5))
    /\ CvBelow(Ratio(1, 5))
    /\ ~RsdBelow(Ratio(1, 5))
    /\ avg_rsd(metrics) = Float64(FromInt(20))

====
